---- MODULE Spec2Model ----
(***************************************************************************)
(* Model of the client-side upload orchestration of src/src/App.js:       *)
(*   - MultipartUploadHandler: start / initializeUpload / uploadParts /    *)
(*     uploadPart / completeUpload / cleanupParts / abort / handleError    *)
(*   - UploadStateManager: saveUploadState / getUploadState /              *)
(*     removeUploadState / checkAndCleanup / performCleanup                *)
(* JavaScript runs every continuation to its next real suspension (a       *)
(* pending Storage call or a timer) without interleaving, so one action    *)
(* here is one such run-to-completion step.                                *)
(*                                                                         *)
(* Units: file offsets and sizes are in KiB, times are in ms.              *)
(***************************************************************************)
EXTENDS Integers, Sequences, FiniteSets, TLC

\* ------------------------------------------------------------ UPLOAD_CONFIG
CHUNK_SIZE == 512 * 1024
MAX_RETRIES == 5
CONCURRENT_UPLOADS == 4
STALE_THRESHOLD_HOURS == 24
CHECK_INTERVAL_MINUTES == 30
BATCH_SIZE == 50
\* uploadPart's initialDelay and the constructor's maxRetryDelay (ms)
initialDelay == 1000
maxRetryDelay == 32000
storagePrefix == "upload-"
\* pageSize of the Storage.list calls of listBucketContents and handleDelete
pageSize == 1000

\* ------------------------------------------------------------------ bounds
\* largest number of parts of a modelled file
MaxParts == 6
\* at most this many parts of one upload see a failing Storage.put
MaxFailingParts == 1
\* number of clock advances in a run of the state manager
MaxTicks == 2
\* number of saveUploadState calls in a run of the state manager
MaxSaves == 2
\* largest number of parts of a file uploaded into a store that holds objects
MaxStoreParts == 2
\* largest number of parts of a file whose parts are retried from outside
MaxRetryParts == 2
\* largest number of rejected Storage.put requests of retried parts in a run
MaxRetryRejections == 1
\* largest number of atoms of a key of a small store
MaxKeyLen == 4
\* largest number of objects of a small store
MaxObjects == 2
\* number of files in the big folder
MaxFolderObjects == 1001
\* the removals of a delete that may be rejected: the first MaxRejectedAt
MaxRejectedAt == 2
\* the removals of the loop that are rejected in a run
MaxRejections == 1

\* ------------------------------------------------------------ model values
Null == "null"
Undefined == "undefined"
\* the path the handler uploads to, and its uploadId
path == "docs/report.bin"
uploadId == "upload-1-a"
\* Math.random() * 1000 lies in [0, 1000); its extremes in whole ms
Jitters == {0, 999}
\* progress.loaded / chunk.size * 100 as reported by a progress callback
ProgressValues == {50}
\* sizes of the files uploaded: empty, one chunk and less, exact multiples of
\* the chunk size and one unit beyond them
FileSizes ==
    {0, 1, CHUNK_SIZE - 1} \cup
    {k * CHUNK_SIZE + r : k \in 1..(MaxParts - 1), r \in {0, 1}} \cup
    {MaxParts * CHUNK_SIZE}

VARIABLES
    \* ---- MultipartUploadHandler
    fileSize,        \* this.file.size
    numParts,        \* this.numParts
    parts,           \* this.parts
    aborted,         \* this.aborted
    abortCalled,     \* whether abort() has been called
    activeUploads,   \* this.activeUploads
    uploadedParts,   \* this.uploadedParts
    startPc,         \* where start() stands
    loopPc,          \* where uploadParts() stands
    launched,        \* uploadPromises.length of uploadParts
    localUploaded,   \* the local uploadedParts array of uploadParts, as the set of
                     \* its elements (the code reads its length and its sorted form)
    promise,         \* state of each uploadPromise of uploadParts
    call,            \* each uploadPart call: position, retries, timer, chunk
    cleanupIdx,      \* cleanupParts: index of the part being removed
    failing,         \* parts that have seen a failing Storage.put
    removeFailed,    \* parts whose Storage.remove in cleanupParts was rejected
    \* ---- the object store behind Storage
    store,           \* key -> content (a byte range of the file) or NoObject
    putLog,          \* every Storage.put request issued by the handler
    before,          \* the store as it was when the handler was constructed
    rcall,           \* each uploadPart call made by retry(), retryPart() or
                     \* retryFailedParts()
    retryOp,         \* the call of retry(), retryPart() or retryFailedParts(): which
                     \* one, where it stands, the parts it retries
    \* ---- the browser
    now,             \* Date.now()
    localStorage,    \* key -> item
    \* ---- UploadStateManager instances
    mgr,             \* per instance: isCleanupRunning, lastCleanupTime, cleanup frame
    \* ---- bookkeeping of the environment
    lastSaved,       \* per upload id: the state last given to saveUploadState, with
                     \* the time of the call as lastUpdated; NullState once removed
    ticks,           \* clock advances so far
    saves,           \* saveUploadState calls of the environment so far
    lastOp,          \* the kind of the step made last: checkAndCleanup, performCleanup
                     \* (the resumption of one) or other
    \* ---- the Content component
    objects,         \* the objects Storage holds at level 'protected', in key order
    ui,              \* the state of Content: currentPath, bucketContents,
                     \* itemToDelete, showDeleteConfirmation, visibleAlert, and where
                     \* listBucketContents and handleDelete stand
    lastDelete       \* the last handleDelete: its item, the objects when it was
                     \* called, its outcome

hvars == <<fileSize, numParts, parts, aborted, abortCalled, activeUploads, uploadedParts,
           startPc, loopPc, launched, localUploaded, promise, call,
           cleanupIdx, failing, removeFailed, store, putLog, before,
           rcall, retryOp>>
mvars == <<now, mgr, lastSaved, ticks, saves, lastOp>>
cvars == <<objects, ui, lastDelete>>
vars == <<hvars, mvars, localStorage, cvars>>

\* -------------------------------------------------------------- arithmetic
Min(a, b) == IF a <= b THEN a ELSE b

\* Math.ceil(a / b) for a >= 0, b > 0
Ceil(a, b) == IF a % b = 0 THEN a \div b ELSE (a \div b) + 1

RECURSIVE Pow2(_)
\* Math.pow(2, n)
Pow2(n) == IF n <= 0 THEN 1 ELSE 2 * Pow2(n - 1)

RECURSIVE SortByPartNumber(_)
\* uploadedParts.sort((a, b) => a.PartNumber - b.PartNumber), of the array
\* whose elements are the set S
SortByPartNumber(S) ==
    IF S = {} THEN <<>>
    ELSE LET least == CHOOSE x \in S : \A y \in S : x <= y
         IN  <<least>> \o SortByPartNumber(S \ {least})

\* ---------------------------------------------------------------- objects
\* JavaScript objects are functions from field names to values.
\* the fields that hold strings, which may hold undefined
StringFields == {"uploadId", "path", "status", "error", "key"}

\* JSON.stringify(obj): a field whose value is undefined is left out
JSONstringify(obj) ==
    [kind |-> "json",
     obj |-> [f \in {g \in DOMAIN obj :
                        ~(g \in StringFields /\ obj[g] = Undefined)} |-> obj[f]]]

NoItem == [kind |-> "absent"]
Garbage == [kind |-> "text", text |-> "{not json"]

\* whether JSON.parse(item) returns (it throws a SyntaxError otherwise)
Parsable(item) == item.kind = "json"
JSONparse(item) == item.obj

\* now.toString() and parseInt(item) || 0
NumToString(n) == [kind |-> "digits", n |-> n]
ParseIntOr0(item) == IF item.kind = "digits" THEN item.n ELSE 0

\* {...a, ...b}; spreading null adds nothing
Spread(a, b) == b @@ a
EmptyObj == [f \in {} |-> Null]

\* ---------------------------------------------------------------- the store
PartKeyNoNumber(p, n) == p \o "_part"

\* `${this.path}_part${partNumber}`
PartKey(p, n) == p \o "_part" \o ToString(n)

\* the key of an object of the same folder that is no part of the upload
otherKey == "docs/notes.txt"

StoreKeys == {path, otherKey} \cup {PartKey(path, n) : n \in 1..(MaxParts + 1)}

\* the content of an object: a byte range of the file; NoObject where the
\* store has no object
NoObject == [absent |-> TRUE]
\* the content of an object that was in the store before the upload
OldObject == [old |-> TRUE]
WholeFile == [from |-> 0, to |-> fileSize]

\* --------------------------------------------------- part tracking (pure)
initializePartTrackingFullChunks(size, n) ==
    [i \in 1..n |->
        [partNumber |-> i,
         startByte  |-> (i - 1) * CHUNK_SIZE,
         endByte    |-> i * CHUNK_SIZE,
         progress   |-> 0,
         status     |-> "pending",
         completed  |-> FALSE,
         inProgress |-> FALSE,
         error      |-> Null,
         size       |-> CHUNK_SIZE]]

\* initializePartTracking with numParts = n and file.size = size
initializePartTracking(size, n) ==
    [i \in 1..n |->
        [partNumber |-> i,
         startByte  |-> (i - 1) * CHUNK_SIZE,
         endByte    |-> Min(i * CHUNK_SIZE, size),
         progress   |-> 0,
         status     |-> "pending",
         completed  |-> FALSE,
         inProgress |-> FALSE,
         error      |-> Null,
         size       |-> Min(CHUNK_SIZE, size - ((i - 1) * CHUNK_SIZE))]]

\* the chunk uploadParts slices for partNumber: file.slice(start, end)
SliceOf(partNumber) ==
    LET start == (partNumber - 1) * CHUNK_SIZE
        end   == Min(start + CHUNK_SIZE, fileSize)
    IN  [from |-> start, to |-> end]

updatePartProgressKeepsFlags(ps, partNumber, progress, status, error) ==
    IF partNumber \in DOMAIN ps
    THEN [ps EXCEPT ![partNumber] =
             [@ EXCEPT !.progress = progress, !.status = status, !.error = error,
                       !.inProgress = (@ \/ status = "uploading"),
                       !.completed  = (status = "completed")]]
    ELSE ps

updatePartProgress(ps, partNumber, progress, status, error) ==
    IF partNumber \in DOMAIN ps
    THEN [ps EXCEPT ![partNumber] =
             [@ EXCEPT !.progress   = progress,
                       !.status     = status,
                       !.inProgress = (status = "uploading"),
                       !.completed  = (status = "completed"),
                       !.error      = error]]
    ELSE ps

\* the part statistics and status of calculateProgress's report
calculateProgress ==
    LET completedPartsCount  == Cardinality({i \in DOMAIN parts : parts[i].completed})
        inProgressPartsCount == Cardinality({i \in DOMAIN parts : parts[i].inProgress})
        failedPartsCount     == Cardinality({i \in DOMAIN parts : parts[i].error # Null})
    IN  [loadedParts |-> completedPartsCount,
         totalParts  |-> numParts,
         status      |-> IF aborted THEN "aborted" ELSE "in-progress",
         statistics  |->
             [completed  |-> completedPartsCount,
              inProgress |-> inProgressPartsCount,
              failed     |-> failedPartsCount,
              pending    |-> numParts - (completedPartsCount + inProgressPartsCount
                                          + failedPartsCount)]]



\* ----------------------------------------------------- UploadStateManager
UploadIds == {uploadId, "upload-2-b"}
LSKey(id) == storagePrefix \o id
UploadKeys == {LSKey(id) : id \in UploadIds}
\* the uploads of earlier sessions, whose records fill a batch of performCleanup
FillerIds == {"old-" \o ToString(i) : i \in 1..BATCH_SIZE}
FillerKeys == {LSKey(id) : id \in FillerIds}
\* their keys, in the order of the uploads
FillerOrder == [i \in 1..BATCH_SIZE |-> LSKey("old-" \o ToString(i))]
\* the keys of localStorage: the upload records, lastCleanupTime and an
\* entry of another feature of the page
LSKeys == UploadKeys \cup FillerKeys \cup {"lastCleanupTime", "theme"}
Mgrs == {1, 2}

\* what getUploadState returns for an id without a record
NullState == [isNull |-> TRUE]
SpreadState(x) == IF x = NullState THEN EmptyObj ELSE x

saveUploadStateNoStamp(ls, id, state) ==
    [ls EXCEPT ![LSKey(id)] = JSONstringify(state)]

saveUploadState(ls, id, state) ==
    LET updatedState == Spread(state, [lastUpdated |-> now])
    IN  [ls EXCEPT ![LSKey(id)] = JSONstringify(updatedState)]

getUploadState(ls, id) ==
    LET state == ls[LSKey(id)]
    IN  IF state # NoItem THEN JSONparse(state) ELSE NullState

removeUploadState(ls, id) == [ls EXCEPT ![LSKey(id)] = NoItem]

\* an UploadStateManager after its constructor; pc, states, left and checkNow
\* are the frame of a checkAndCleanup / performCleanup that is suspended, at
\* the setTimeout after a batch (paused) or at the Storage.cancel of
\* abortMultipartUpload (cancel): states holds the entries of
\* getAllUploadStates not yet gone through, the first left of them in the
\* current batch. log holds what the performCleanup has called so far for the
\* records that carry an uploadId, running the number of performCleanup calls
\* that have not returned. (this.lastCleanupTime is written and never
\* read, registerUpload is never called: both are left out)
NewMgr == [isCleanupRunning |-> FALSE,
           pc |-> "idle", states |-> <<>>, checkNow |-> 0,
           left |-> 0, log |-> <<>>, running |-> 0]

\* s with lastUpdated added
Stamped(s) == Spread(s, [lastUpdated |-> now])

\* the fields of an object that are not undefined
Defined(obj) ==
    [f \in {g \in DOMAIN obj : ~(g \in StringFields /\ obj[g] = Undefined)} |-> obj[f]]

RECURSIVE KeysInOrder(_)
\* the keys K in one order
KeysInOrder(K) ==
    IF K = {} THEN <<>>
    ELSE LET k == CHOOSE x \in K : TRUE IN <<k>> \o KeysInOrder(K \ {k})

\* the keys of localStorage that begin with storagePrefix
PrefixedKeys == UploadKeys \cup FillerKeys

\* key.startsWith(this.storagePrefix)
StartsWithPrefix(k) == k \in PrefixedKeys

\* getAllUploadStates() when localStorage.key(i) gives the keys of last after
\* the keys of the earlier uploads and the other keys before them (the order
\* of the keys is the browser's)
getAllUploadStates(ls, last) ==
    LET K == {k \in UploadKeys : ls[k] # NoItem /\ StartsWithPrefix(k)}
        keys == KeysInOrder(K \ last)
                  \o SelectSeq(FillerOrder, LAMBDA k : ls[k] # NoItem /\ StartsWithPrefix(k))
                  \o KeysInOrder(K \cap last)
    IN  [j \in 1..Len(keys) |->
            IF Parsable(ls[keys[j]])
            THEN [key |-> keys[j], state |-> JSONparse(ls[keys[j]])]
            ELSE [key |-> keys[j], state |-> NullState]]

\* o[f] is truthy, for a field that holds a boolean when present
Truthy(o, f) == f \in DOMAIN o /\ o[f] = TRUE

\* o[f] < t, which is false when o[f] is undefined
FieldLess(o, f, t) == f \in DOMAIN o /\ o[f] < t

shouldRemoveItem(state, staleThreshold) ==
    IF state = NullState THEN TRUE
    ELSE IF Truthy(state, "completed") /\ FieldLess(state, "timestamp", staleThreshold) THEN TRUE
    ELSE IF Truthy(state, "failed") /\ FieldLess(state, "timestamp", staleThreshold) THEN TRUE
    ELSE /\ ~Truthy(state, "completed")
         /\ ~Truthy(state, "failed")
         /\ FieldLess(state, "timestamp", staleThreshold)

StaleThresholdMs == STALE_THRESHOLD_HOURS * 60 * 60 * 1000
CheckIntervalMs == CHECK_INTERVAL_MINUTES * 60 * 1000

\* state?.uploadId and state.path are truthy
HasUploadId(state) == "uploadId" \in DOMAIN state /\ state.uploadId # Undefined
HasPath(state) == "path" \in DOMAIN state /\ state.path # Undefined

\* what performCleanup has called for a record that carries an uploadId:
\* abortMultipartUpload(state), the outcome of its Storage.cancel,
\* localStorage.removeItem(key)
Called(op, key) == [op |-> op, key |-> key]

CancelPropagates(ok) == ok

\* whether performCleanup goes on to removeItem after the Storage.cancel of
\* abortMultipartUpload has settled: a rejection is caught there
CancelCaught(ok) == TRUE

RECURSIVE RunBatch(_, _, _, _, _, _, _)
\* the inner loop of performCleanup over states[i..hi], what remains of a
\* batch, up to its next await: the Storage.cancel of abortMultipartUpload
\* (pc cancel), or the setTimeout after the batch (paused)
RunBatch(ls, states, i, hi, log, removed, cleanupNow) ==
    IF i > hi
    THEN [ls |-> ls, states |-> SubSeq(states, hi + 1, Len(states)), left |-> 0,
          log |-> log, removed |-> removed, pc |-> "paused"]
    ELSE LET key == states[i].key
             state == states[i].state
         IN  IF ~shouldRemoveItem(state, cleanupNow - StaleThresholdMs)
             THEN RunBatch(ls, states, i + 1, hi, log, removed, cleanupNow)
             ELSE IF HasUploadId(state) /\ HasPath(state)
             THEN [ls |-> ls, states |-> SubSeq(states, i, Len(states)),
                   left |-> hi - i + 1,
                   log |-> Append(log, Called("abort", key)),
                   removed |-> removed, pc |-> "cancel"]
             ELSE RunBatch([ls EXCEPT ![key] = NoItem], states, i + 1, hi,
                           log \o (IF HasUploadId(state)
                                   THEN <<Called("abort", key), Called("remove", key)>>
                                   ELSE <<>>),
                           removed \cup {key}, cleanupNow)

\* the first for loop of performCleanup: the size of the next batch
BatchSize(states) == Min(BATCH_SIZE, Len(states))

NeverRunning(m) == FALSE

\* if (this.isCleanupRunning) return
AlreadyRunning(m) == mgr[m].isCleanupRunning

cleanupNeededAlways(t, lastCleanup) == TRUE

\* checkAndCleanup's cleanupNeeded at time t
cleanupNeeded(t, lastCleanup) == (t - lastCleanup) > CheckIntervalMs

\* ------------------------------------------------- MultipartUploadHandler
PartNumbers == 1..numParts

\* an uploadPart call: pc is none | put | wait | returned | thrown; attempts
\* counts its Storage.put requests; delay is the timeout it last asked for and
\* remaining what is left of it
NewCall == [pc |-> "none", retries |-> 0, attempts |-> 0, remaining |-> 0,
            delay |-> 0, chunk |-> [from |-> 0, to |-> 0]]

\* uploadPart(chunk, n) up to its first Storage.put, for every n in S
LaunchedParts(ps, S) ==
    [i \in DOMAIN ps |->
        IF i \in S THEN updatePartProgress(ps, i, 0, "uploading", Null)[i] ELSE ps[i]]
LaunchedCalls(c, S) ==
    [i \in DOMAIN c |->
        IF i \in S
        THEN [NewCall EXCEPT !.pc = "put", !.attempts = 1, !.chunk = SliceOf(i)]
        ELSE c[i]]
PartPuts(S) ==
    {[key |-> PartKey(path, i), content |-> SliceOf(i), part |-> i] : i \in S}
FilePut == [key |-> path, content |-> WholeFile, part |-> 0]

\* a record of the error alone
ErrorStateAlone(ls) ==
    [failed |-> TRUE, error |-> "message", failedAt |-> now, status |-> "error"]

\* handleError(error): the record it saves
ErrorState(ls) ==
    Spread(SpreadState(getUploadState(ls, uploadId)),
           [failed |-> TRUE, error |-> "message", failedAt |-> now, status |-> "error"])

\* initializeUpload's record
InitState ==
    [uploadId |-> uploadId, path |-> path, startTime |-> now,
     completed |-> TRUE, failed |-> FALSE]

\* completeUpload's record, written after the final Storage.put
FinalState(ls) ==
    Spread(Spread(SpreadState(getUploadState(ls, uploadId)),
                  [status |-> "completed",
                   loadedParts |-> calculateProgress.loadedParts,
                   totalParts |-> calculateProgress.totalParts]),
           [completed |-> TRUE, completedAt |-> now, key |-> path])

\* ---------------------------------------------------------------- Content
\* Content after its useState calls, before the bucket is opened
NewContent ==
    [currentPath |-> <<>>,
     bucketContents |-> [loading |-> TRUE, items |-> <<>>],
     itemToDelete |-> <<>>,
     showDeleteConfirmation |-> FALSE,
     visibleAlert |-> FALSE,
     pc |-> "idle",
     listPath |-> <<>>,
     caller |-> "user",
     results |-> <<>>,
     listed |-> FALSE,
     toRemove |-> <<>>]

\* handleDelete has not been called
NoDelete == [item |-> <<>>, before |-> <<>>, outcome |-> "none", rejections |-> 0]

\* Content is not in use
ContentUnused == objects = <<>> /\ ui = NewContent /\ lastDelete = NoDelete

\* no retry(), retryPart() or retryFailedParts() has been called
NoRetry == [kind |-> "none", pc |-> "none", targets |-> {}]

Init ==
    /\ fileSize \in FileSizes
    /\ numParts = Ceil(fileSize, CHUNK_SIZE)
    /\ parts = initializePartTracking(fileSize, numParts)
    /\ aborted = FALSE
    /\ abortCalled = FALSE
    /\ activeUploads = {}
    /\ uploadedParts = <<>>
    /\ startPc = "new"
    /\ loopPc = "none"
    /\ launched = 0
    /\ localUploaded = {}
    /\ promise = [i \in 1..numParts |-> "none"]
    /\ call = [i \in 1..numParts |-> NewCall]
    /\ rcall = [i \in 1..numParts |-> NewCall]
    /\ retryOp = NoRetry
    /\ cleanupIdx = 0
    /\ failing = {}
    /\ removeFailed = {}
    /\ store = [k \in StoreKeys |-> NoObject]
    /\ before = store
    /\ putLog = {}
    /\ now = 17 * 100000000
    /\ localStorage = [k \in LSKeys |-> NoItem]
    /\ mgr = [m \in Mgrs |-> NewMgr]
    /\ lastSaved = [id \in UploadIds |-> NullState]
    /\ ticks = 0
    /\ saves = 0
    /\ lastOp = "other"
    /\ ContentUnused

\* start() up to the Storage.put of initializeUpload
Start ==
    /\ startPc = "new"
    /\ startPc' = "init"
    /\ putLog' = putLog \cup {FilePut}
    /\ UNCHANGED <<cvars, fileSize, before, rcall, retryOp, abortCalled, removeFailed, numParts, parts, aborted, activeUploads, uploadedParts,
                   loopPc, launched, localUploaded, promise, call, cleanupIdx,
                   failing, store, mvars, localStorage>>

\* the Storage.put of initializeUpload rejects: start() catches, handleError
\* saves the error record and rethrows
InitPutFails ==
    /\ startPc = "init"
    /\ startPc' = "rejected"
    /\ localStorage' = saveUploadState(localStorage, uploadId, ErrorState(localStorage))
    /\ lastSaved' = [lastSaved EXCEPT ![uploadId] = Stamped(ErrorState(localStorage))]
    /\ UNCHANGED <<cvars, fileSize, before, rcall, retryOp, abortCalled, removeFailed, numParts, parts, aborted, activeUploads, uploadedParts,
                   loopPc, launched, localUploaded, promise, call, cleanupIdx,
                   failing, store, putLog, now, mgr, ticks, saves, lastOp>>

\* the Storage.put of initializeUpload resolves: the record is saved and
\* uploadParts runs up to its first await
InitPutSucceeds ==
    /\ startPc = "init"
    /\ store' = [store EXCEPT ![path] = WholeFile]
    /\ localStorage' = saveUploadState(localStorage, uploadId, InitState)
    /\ lastSaved' = [lastSaved EXCEPT ![uploadId] = Stamped(InitState)]
    /\ IF aborted
       THEN /\ startPc' = "resolvedFalse"
            /\ UNCHANGED <<parts, activeUploads, uploadedParts, loopPc, launched,
                           call, putLog, promise>>
       ELSE LET first == 1..Min(numParts, CONCURRENT_UPLOADS) IN
            /\ parts' = LaunchedParts(parts, first)
            /\ activeUploads' = activeUploads \cup first
            /\ call' = LaunchedCalls(call, first)
            /\ promise' = [i \in DOMAIN promise |->
                             IF i \in first THEN "pending" ELSE promise[i]]
            /\ putLog' = putLog \cup PartPuts(first)
            /\ launched' = Min(numParts, CONCURRENT_UPLOADS)
            /\ IF numParts = 0
               THEN \* Promise.all([]) resolves, completeUpload has no parts
                    /\ loopPc' = "returned"
                    /\ startPc' = "resolvedTrue"
               ELSE /\ loopPc' = IF numParts >= CONCURRENT_UPLOADS THEN "race" ELSE "all"
                    /\ startPc' = "uploading"
            /\ UNCHANGED uploadedParts
    /\ UNCHANGED <<cvars, fileSize, before, rcall, retryOp, abortCalled, removeFailed, numParts, aborted, localUploaded, cleanupIdx, failing,
                   now, mgr, ticks, saves, lastOp>>


PromiseAllAsAny(ps, k) == \E i \in 1..k : ps[i] = "fulfilled"

\* whether Promise.all(uploadPromises) is fulfilled: every promise pushed is
PromiseAll(ps, k) == \A i \in 1..k : ps[i] = "fulfilled"

\* what uploadParts and start() do once the uploadPromise of part n has
\* settled (ok: fulfilled), given the handler's state after uploadPart's own
\* updates: Promise.race / Promise.all settle and the code runs on to its
\* next pending Storage call
UploadPartsResumes(n, ok, parts1, active1, call1, promise1, local1) ==
    CASE loopPc = "race" /\ ok /\ ~aborted ->
            \* findIndex finds no p.status, nothing is spliced: every later
            \* Promise.race holds the settled promise and resolves at once
            LET rest == (launched + 1)..numParts IN
            /\ parts' = LaunchedParts(parts1, rest)
            /\ activeUploads' = active1 \cup rest
            /\ call' = LaunchedCalls(call1, rest)
            /\ promise' = [i \in DOMAIN promise1 |->
                             IF i \in rest THEN "pending" ELSE promise1[i]]
            /\ putLog' = putLog \cup PartPuts(rest)
            /\ launched' = numParts
            /\ loopPc' = "all"
            /\ UNCHANGED <<uploadedParts, startPc, localStorage, lastSaved>>
      [] loopPc = "race" /\ ok /\ aborted ->
            \* the loop breaks, Promise.all is skipped, start() returns false
            /\ parts' = parts1 /\ activeUploads' = active1 /\ call' = call1
            /\ promise' = promise1
            /\ loopPc' = "returned"
            /\ startPc' = "resolvedFalse"
            /\ UNCHANGED <<putLog, launched, uploadedParts, localStorage, lastSaved>>
      [] loopPc = "all" /\ ok /\ PromiseAll(promise1, launched) ->
            /\ parts' = parts1 /\ activeUploads' = active1 /\ call' = call1
            /\ promise' = promise1
            /\ uploadedParts' = SortByPartNumber(local1)
            /\ loopPc' = "returned"
            /\ IF aborted
               THEN startPc' = "resolvedFalse" /\ UNCHANGED putLog
               ELSE \* completeUpload up to its Storage.put
                    startPc' = "completing" /\ putLog' = putLog \cup {FilePut}
            /\ UNCHANGED <<launched, localStorage, lastSaved>>
      [] loopPc \in {"race", "all"} /\ ~ok ->
            \* the await throws; start() catches, handleError saves and rethrows
            /\ parts' = parts1 /\ activeUploads' = active1 /\ call' = call1
            /\ promise' = promise1
            /\ loopPc' = "thrown"
            /\ startPc' = "rejected"
            /\ localStorage' = saveUploadState(localStorage, uploadId, ErrorState(localStorage))
            /\ lastSaved' = [lastSaved EXCEPT ![uploadId] = Stamped(ErrorState(localStorage))]
            /\ UNCHANGED <<putLog, launched, uploadedParts>>
      [] OTHER ->
            /\ parts' = parts1 /\ activeUploads' = active1 /\ call' = call1
            /\ promise' = promise1
            /\ UNCHANGED <<putLog, launched, uploadedParts, loopPc, startPc,
                           localStorage, lastSaved>>

\* the Storage.put of part n resolves
PutSucceeds(n) ==
    /\ call[n].pc = "put"
    /\ store' = [store EXCEPT ![PartKey(path, n)] = call[n].chunk]
    /\ localUploaded' = localUploaded \cup {n}
    /\ UploadPartsResumes(n, TRUE,
           updatePartProgress(parts, n, 100, "completed", Null),
           activeUploads \ {n},
           [call EXCEPT ![n] = [NewCall EXCEPT !.pc = "returned", !.attempts = call[n].attempts]],
           [promise EXCEPT ![n] = "fulfilled"],
           localUploaded \cup {n})
    /\ UNCHANGED <<cvars, fileSize, before, rcall, retryOp, abortCalled, removeFailed, numParts, aborted, cleanupIdx, failing, now, mgr,
                   ticks, saves, lastOp>>

\* the delay uploadPart waits after its retries-th failure
RetryDelayNoCap(retries, jitter) == initialDelay * Pow2(retries) + jitter

RetryDelay(retries, jitter) ==
    Min(initialDelay * Pow2(retries - 1), maxRetryDelay) + jitter

\* whether uploadPart gives up after its retries-th failure
GivesUpLate(retries) == retries > MAX_RETRIES

GivesUp(retries) == retries >= MAX_RETRIES

\* the parts whose Storage.put may reject time and again: at most
\* MaxFailingParts parts of a file
MayFail(n) == n \in failing \/ Cardinality(failing) < MaxFailingParts

\* in a file of up to MaxRetryParts parts the first Storage.put of any part
\* may reject
MayFailOnce(n) == numParts <= MaxRetryParts /\ call[n].retries = 0

\* the Storage.put of part n rejects
PutFails(n) ==
    /\ call[n].pc = "put"
    /\ MayFail(n) \/ MayFailOnce(n)
    /\ failing' = IF MayFail(n) THEN failing \cup {n} ELSE failing
    /\ LET retries == call[n].retries + 1 IN
       IF GivesUp(retries)
       THEN \* uploadPart throws; the catch of uploadParts marks the part again
            UploadPartsResumes(n, FALSE,
                updatePartProgress(updatePartProgress(parts, n, 0, "error", "message"),
                                   n, 0, "error", "Failed to upload part"),
                activeUploads \ {n},
                [call EXCEPT ![n] = [NewCall EXCEPT !.pc = "thrown", !.retries = retries,
                                                 !.attempts = call[n].attempts]],
                [promise EXCEPT ![n] = "rejected"],
                localUploaded)
       ELSE \E jitter \in Jitters :
            /\ parts' = updatePartProgress(parts, n, 0, "retrying", "Retrying...")
            /\ activeUploads' = activeUploads \ {n}
            /\ call' = [call EXCEPT ![n].pc = "wait", ![n].retries = retries,
                                    ![n].delay = RetryDelay(retries, jitter),
                                    ![n].remaining = RetryDelay(retries, jitter)]
            /\ UNCHANGED <<promise, putLog, launched, uploadedParts, loopPc, startPc,
                           localStorage, lastSaved>>
    /\ UNCHANGED <<cvars, fileSize, before, rcall, retryOp, abortCalled, removeFailed, numParts, aborted, localUploaded, cleanupIdx, store,
                   now, mgr, ticks, saves, lastOp>>

Waiting == {i \in DOMAIN call : call[i].pc = "wait" /\ call[i].remaining > 0}

\* time passes until the next retry timer is due
TimePasses ==
    /\ Waiting # {}
    /\ LET d == CHOOSE x \in {call[i].remaining : i \in Waiting} :
                    \A i \in Waiting : x <= call[i].remaining
       IN  call' = [i \in DOMAIN call |->
                      IF i \in Waiting
                      THEN [call[i] EXCEPT !.remaining = @ - d] ELSE call[i]]
    /\ UNCHANGED <<cvars, fileSize, before, rcall, retryOp, abortCalled, removeFailed, numParts, parts, aborted, activeUploads, uploadedParts,
                   startPc, loopPc, launched, localUploaded, promise, cleanupIdx,
                   failing, store, putLog, mvars, localStorage>>

\* the timeout of uploadPart's backoff fires: the loop starts the next attempt
RetryTimerFires(n) ==
    /\ call[n].pc = "wait"
    /\ call[n].remaining = 0
    /\ activeUploads' = activeUploads \cup {n}
    /\ parts' = updatePartProgress(parts, n, 0, "uploading", Null)
    /\ call' = [call EXCEPT ![n].pc = "put", ![n].attempts = @ + 1, ![n].delay = 0]
    /\ putLog' = putLog \cup PartPuts({n})
    /\ UNCHANGED <<cvars, fileSize, before, rcall, retryOp, abortCalled, removeFailed, numParts, aborted, uploadedParts, startPc, loopPc,
                   launched, localUploaded, promise, cleanupIdx, failing, store,
                   mvars, localStorage>>

\* the progressCallback of part n's Storage.put
PartProgress(n, p) ==
    /\ call[n].pc = "put"
    /\ ~aborted
    /\ parts' = updatePartProgress(parts, n, p, "uploading", Null)
    /\ UNCHANGED <<cvars, fileSize, before, rcall, retryOp, abortCalled, removeFailed, numParts, aborted, activeUploads, uploadedParts,
                   startPc, loopPc, launched, localUploaded, promise, call,
                   cleanupIdx, failing, store, putLog, mvars, localStorage>>


\* the final Storage.put of completeUpload resolves: the record is saved and
\* cleanupParts asks for the removal of the first part object
FinalPutSucceeds ==
    /\ startPc = "completing"
    /\ store' = [store EXCEPT ![path] = WholeFile]
    /\ localStorage' = saveUploadState(localStorage, uploadId, FinalState(localStorage))
    /\ lastSaved' = [lastSaved EXCEPT ![uploadId] = Stamped(FinalState(localStorage))]
    /\ startPc' = "cleaning"
    /\ cleanupIdx' = 1
    /\ UNCHANGED <<cvars, fileSize, before, rcall, retryOp, abortCalled, removeFailed, numParts, parts, aborted, activeUploads, uploadedParts,
                   loopPc, launched, localUploaded, promise, call, failing, putLog,
                   now, mgr, ticks, saves, lastOp>>

\* the final Storage.put rejects: completeUpload rethrows, start() catches,
\* handleError saves the error record and rethrows
FinalPutFails ==
    /\ startPc = "completing"
    /\ startPc' = "rejected"
    /\ localStorage' = saveUploadState(localStorage, uploadId, ErrorState(localStorage))
    /\ lastSaved' = [lastSaved EXCEPT ![uploadId] = Stamped(ErrorState(localStorage))]
    /\ UNCHANGED <<cvars, fileSize, before, rcall, retryOp, abortCalled, removeFailed, numParts, parts, aborted, activeUploads, uploadedParts,
                   loopPc, launched, localUploaded, promise, call, cleanupIdx,
                   failing, store, putLog, now, mgr, ticks, saves, lastOp>>

\* cleanupParts goes on to the next part, or returns and start() resolves true
CleanupPartsStep ==
    IF cleanupIdx < Len(uploadedParts)
    THEN cleanupIdx' = cleanupIdx + 1 /\ UNCHANGED startPc
    ELSE cleanupIdx' = 0 /\ startPc' = "resolvedTrue"

CleanupPartsStopsOnFailure == cleanupIdx' = 0 /\ startPc' = "resolvedTrue"

\* what cleanupParts does when a Storage.remove rejected: the inner catch
\* warns and the loop goes on
CleanupPartsAfterFailure == CleanupPartsStep

\* the pending Storage.remove of cleanupParts resolves
RemoveSucceeds ==
    /\ startPc = "cleaning"
    /\ store' = [store EXCEPT ![PartKey(path, uploadedParts[cleanupIdx])] = NoObject]
    /\ CleanupPartsStep
    /\ UNCHANGED <<cvars, fileSize, before, rcall, retryOp, abortCalled, removeFailed, numParts, parts, aborted, activeUploads, uploadedParts,
                   loopPc, launched, localUploaded, promise, call, failing, putLog,
                   mvars, localStorage>>

\* the pending Storage.remove of cleanupParts rejects
RemoveFails ==
    /\ startPc = "cleaning"
    /\ removeFailed' = removeFailed \cup {uploadedParts[cleanupIdx]}
    /\ CleanupPartsAfterFailure
    /\ UNCHANGED <<cvars, fileSize, before, rcall, retryOp, abortCalled, numParts, parts, aborted, activeUploads, uploadedParts,
                   loopPc, launched, localUploaded, promise, call, failing, store,
                   putLog, mvars, localStorage>>

\* abort(): s3UploadId is never set, so nothing is cancelled
Abort ==
    /\ abortCalled' = TRUE
    /\ aborted' = TRUE
    /\ activeUploads' = {}
    /\ localStorage' = removeUploadState(localStorage, uploadId)
    /\ lastSaved' = [lastSaved EXCEPT ![uploadId] = NullState]
    /\ UNCHANGED <<cvars, fileSize, before, rcall, retryOp, removeFailed, numParts, parts, uploadedParts, startPc, loopPc,
                   launched, localUploaded, promise, call, cleanupIdx, failing,
                   store, putLog, now, mgr, ticks, saves, lastOp>>

Next ==
    \/ Start
    \/ InitPutSucceeds
    \/ InitPutFails
    \/ \E n \in PartNumbers : PutSucceeds(n)
    \/ \E n \in PartNumbers : PutFails(n)
    \/ TimePasses
    \/ \E n \in PartNumbers : RetryTimerFires(n)
    \/ \E n \in PartNumbers, p \in ProgressValues : PartProgress(n, p)
    \/ FinalPutSucceeds
    \/ FinalPutFails
    \/ RemoveSucceeds
    \/ RemoveFails
    \/ Abort

Spec == Init /\ [][Next]_vars


\* ------------------------------- retry(), retryPart(), retryFailedParts()
\* the chunk retryPart slices: file.slice(part.startByte, part.endByte)
ChunkOfPart(n) == [from |-> parts[n].startByte, to |-> parts[n].endByte]

\* retry()'s failedParts: this.parts.filter(part => part.error)
PartsWithError == {n \in PartNumbers : parts[n].error # Null}

\* retryFailedParts()'s failedParts
FailedParts == {n \in PartNumbers : parts[n].status \in {"error", "retrying"}}

\* uploadPart(chunk, n) of a retry up to its Storage.put, for every n in S
RetryCalls(c, S, byPart) ==
    [i \in DOMAIN c |->
        IF i \in S
        THEN [NewCall EXCEPT !.pc = "put", !.attempts = 1,
                             !.chunk = IF byPart THEN ChunkOfPart(i) ELSE SliceOf(i)]
        ELSE c[i]]

\* retry(): returns false when aborted; else uploads the parts that have an
\* error one after the other, starting with the first
Retry ==
    /\ retryOp = NoRetry
    /\ IF aborted
       THEN /\ retryOp' = [kind |-> "retry", pc |-> "resolvedFalse", targets |-> {}]
            /\ UNCHANGED <<parts, activeUploads, rcall, putLog>>
       ELSE IF PartsWithError = {}
       THEN /\ retryOp' = [kind |-> "retry", pc |-> "resolvedTrue", targets |-> {}]
            /\ UNCHANGED <<parts, activeUploads, rcall, putLog>>
       ELSE LET first == CHOOSE n \in PartsWithError : \A m \in PartsWithError : n <= m IN
            /\ retryOp' = [kind |-> "retry", pc |-> "running", targets |-> PartsWithError]
            /\ parts' = LaunchedParts(parts, {first})
            /\ activeUploads' = activeUploads \cup {first}
            /\ rcall' = RetryCalls(rcall, {first}, FALSE)
            /\ putLog' = putLog \cup PartPuts({first})
    /\ UNCHANGED <<cvars, fileSize, before, numParts, aborted, abortCalled, uploadedParts, startPc,
                   loopPc, launched, localUploaded, promise, call, cleanupIdx, failing,
                   removeFailed, store, mvars, localStorage>>

\* retryPart(partNumber): throws for a number that names no part
RetryPart(n) ==
    /\ retryOp = NoRetry
    /\ IF n \notin DOMAIN parts
       THEN /\ retryOp' = [kind |-> "retryPart", pc |-> "rejected", targets |-> {}]
            /\ UNCHANGED <<parts, activeUploads, rcall, putLog>>
       ELSE /\ retryOp' = [kind |-> "retryPart", pc |-> "running", targets |-> {n}]
            /\ parts' = LaunchedParts(parts, {n})
            /\ activeUploads' = activeUploads \cup {n}
            /\ rcall' = RetryCalls(rcall, {n}, TRUE)
            /\ putLog' = putLog \cup PartPuts({n})
    /\ UNCHANGED <<cvars, fileSize, before, numParts, aborted, abortCalled, uploadedParts, startPc,
                   loopPc, launched, localUploaded, promise, call, cleanupIdx, failing,
                   removeFailed, store, mvars, localStorage>>

\* retryFailedParts(): returns true when no part has failed; else calls
\* retryPart for every failed part and awaits them all
RetryFailedParts ==
    /\ retryOp = NoRetry
    /\ IF FailedParts = {}
       THEN /\ retryOp' = [kind |-> "retryFailedParts", pc |-> "resolvedTrue",
                           targets |-> {}]
            /\ UNCHANGED <<parts, activeUploads, rcall, putLog>>
       ELSE /\ retryOp' = [kind |-> "retryFailedParts", pc |-> "running",
                           targets |-> FailedParts]
            /\ parts' = LaunchedParts(parts, FailedParts)
            /\ activeUploads' = activeUploads \cup FailedParts
            /\ rcall' = RetryCalls(rcall, FailedParts, TRUE)
            /\ putLog' = putLog \cup PartPuts(FailedParts)
    /\ UNCHANGED <<cvars, fileSize, before, numParts, aborted, abortCalled, uploadedParts, startPc,
                   loopPc, launched, localUploaded, promise, call, cleanupIdx, failing,
                   removeFailed, store, mvars, localStorage>>

\* the Storage.put of a retried part n resolves: uploadPart returns and the
\* function that called it runs on
RetryPutSucceeds(n) ==
    /\ rcall[n].pc = "put"
    /\ store' = [store EXCEPT ![PartKey(path, n)] = rcall[n].chunk]
    /\ LET parts1 == updatePartProgress(parts, n, 100, "completed", Null)
           rcall1 == [rcall EXCEPT ![n] = [NewCall EXCEPT !.pc = "returned",
                                                        !.attempts = rcall[n].attempts]]
           later  == {m \in retryOp.targets : m > n}
       IN
       CASE retryOp.kind = "retry" /\ retryOp.pc = "running" /\ later # {} /\ ~aborted ->
                \* the loop of retry() goes on to the next failed part
                LET next == CHOOSE m \in later : \A k \in later : m <= k IN
                /\ parts' = LaunchedParts(parts1, {next})
                /\ activeUploads' = (activeUploads \ {n}) \cup {next}
                /\ rcall' = RetryCalls(rcall1, {next}, FALSE)
                /\ putLog' = putLog \cup PartPuts({next})
                /\ UNCHANGED retryOp
         [] retryOp.kind = "retry" /\ retryOp.pc = "running" /\ (later = {} \/ aborted) ->
                \* return !this.aborted
                /\ parts' = parts1
                /\ activeUploads' = activeUploads \ {n}
                /\ rcall' = rcall1
                /\ retryOp' = [retryOp EXCEPT !.pc = IF aborted THEN "resolvedFalse"
                                                     ELSE "resolvedTrue"]
                /\ UNCHANGED putLog
         [] retryOp.kind = "retryPart" ->
                \* retryPart marks the part completed again and returns the result
                /\ parts' = updatePartProgress(parts1, n, 100, "completed", Null)
                /\ activeUploads' = activeUploads \ {n}
                /\ rcall' = rcall1
                /\ retryOp' = [retryOp EXCEPT !.pc = "resolvedResult"]
                /\ UNCHANGED putLog
         [] retryOp.kind = "retryFailedParts" ->
                \* Promise.all is fulfilled once every retryPart has returned
                /\ parts' = updatePartProgress(parts1, n, 100, "completed", Null)
                /\ activeUploads' = activeUploads \ {n}
                /\ rcall' = rcall1
                /\ retryOp' = IF retryOp.pc = "running"
                                 /\ \A m \in retryOp.targets : rcall1[m].pc = "returned"
                              THEN [retryOp EXCEPT !.pc = "resolvedTrue"]
                              ELSE retryOp
                /\ UNCHANGED putLog
         [] OTHER ->
                /\ parts' = parts1
                /\ activeUploads' = activeUploads \ {n}
                /\ rcall' = rcall1
                /\ UNCHANGED <<retryOp, putLog>>
    /\ UNCHANGED <<cvars, fileSize, before, numParts, aborted, abortCalled, uploadedParts, startPc,
                   loopPc, launched, localUploaded, promise, call, cleanupIdx, failing,
                   removeFailed, mvars, localStorage>>

RECURSIVE RetryRejections(_)
\* the number of Storage.put requests of retried parts 1..n that were rejected:
\* every attempt of a call but its last has been
RetryRejections(n) ==
    IF n = 0 THEN 0
    ELSE RetryRejections(n - 1)
         + (IF rcall[n].pc = "thrown" THEN rcall[n].attempts
            ELSE IF rcall[n].attempts > 0 THEN rcall[n].attempts - 1 ELSE 0)

\* the Storage.put of a retried part n rejects: uploadPart waits and tries
\* again, or throws and the function that called it rejects
RetryPutFails(n) ==
    /\ rcall[n].pc = "put"
    /\ RetryRejections(numParts) < MaxRetryRejections
    /\ LET retries == rcall[n].retries + 1 IN
       IF GivesUp(retries)
       THEN /\ parts' = updatePartProgress(parts, n, 0, "error", "message")
            /\ rcall' = [rcall EXCEPT ![n] = [NewCall EXCEPT !.pc = "thrown",
                                                   !.retries = retries,
                                                   !.attempts = rcall[n].attempts]]
            /\ retryOp' = IF retryOp.pc = "running"
                          THEN [retryOp EXCEPT !.pc = "rejected"] ELSE retryOp
       ELSE \E jitter \in Jitters :
            /\ parts' = updatePartProgress(parts, n, 0, "retrying", "Retrying...")
            /\ rcall' = [rcall EXCEPT ![n].pc = "wait", ![n].retries = retries,
                                      ![n].delay = RetryDelay(retries, jitter),
                                      ![n].remaining = RetryDelay(retries, jitter)]
            /\ UNCHANGED retryOp
    /\ activeUploads' = activeUploads \ {n}
    /\ UNCHANGED <<cvars, fileSize, before, numParts, aborted, abortCalled, uploadedParts, startPc,
                   loopPc, launched, localUploaded, promise, call, cleanupIdx, failing,
                   removeFailed, store, putLog, mvars, localStorage>>

\* the timeout of a retried part's backoff fires
RetryCallTimerFires(n) ==
    /\ rcall[n].pc = "wait"
    /\ rcall[n].remaining = 0
    /\ activeUploads' = activeUploads \cup {n}
    /\ parts' = updatePartProgress(parts, n, 0, "uploading", Null)
    /\ rcall' = [rcall EXCEPT ![n].pc = "put", ![n].attempts = @ + 1, ![n].delay = 0]
    /\ putLog' = putLog \cup PartPuts({n})
    /\ UNCHANGED <<cvars, fileSize, before, numParts, aborted, abortCalled, uploadedParts, startPc,
                   loopPc, launched, localUploaded, promise, call, cleanupIdx, failing,
                   removeFailed, store, retryOp, mvars, localStorage>>

\* the progressCallback of a retried part's Storage.put
RetryPartProgress(n, p) ==
    /\ rcall[n].pc = "put"
    /\ ~aborted
    /\ parts' = updatePartProgress(parts, n, p, "uploading", Null)
    /\ UNCHANGED <<cvars, fileSize, before, numParts, aborted, abortCalled, activeUploads,
                   uploadedParts, startPc, loopPc, launched, localUploaded, promise,
                   call, rcall, retryOp, cleanupIdx, failing, removeFailed, store,
                   putLog, mvars, localStorage>>

RetryWaiting == {i \in DOMAIN rcall : rcall[i].pc = "wait" /\ rcall[i].remaining > 0}

\* time passes until the next timer is due, of start()'s calls or of the retried
TimePassesAll ==
    /\ Waiting \cup RetryWaiting # {}
    /\ LET due == {call[i].remaining : i \in Waiting}
                  \cup {rcall[i].remaining : i \in RetryWaiting}
           d == CHOOSE x \in due : \A y \in due : x <= y
       IN  /\ call' = [i \in DOMAIN call |->
                         IF i \in Waiting
                         THEN [call[i] EXCEPT !.remaining = @ - d] ELSE call[i]]
           /\ rcall' = [i \in DOMAIN rcall |->
                          IF i \in RetryWaiting
                          THEN [rcall[i] EXCEPT !.remaining = @ - d] ELSE rcall[i]]
    /\ UNCHANGED <<cvars, fileSize, before, numParts, parts, aborted, abortCalled, activeUploads,
                   uploadedParts, startPc, loopPc, launched, localUploaded, promise,
                   retryOp, cleanupIdx, failing, removeFailed, store, putLog, mvars,
                   localStorage>>

\* a file of at most MaxRetryParts whole chunks
InitRetry == Init /\ fileSize \in {k * CHUNK_SIZE : k \in 0..MaxRetryParts}

NextRetry ==
    \/ Start
    \/ InitPutSucceeds
    \/ InitPutFails
    \/ \E n \in PartNumbers : PutSucceeds(n)
    \/ \E n \in PartNumbers : PutFails(n)
    \/ TimePassesAll
    \/ \E n \in PartNumbers : RetryTimerFires(n)
    \/ \E n \in PartNumbers, p \in ProgressValues : PartProgress(n, p)
    \/ FinalPutSucceeds
    \/ FinalPutFails
    \/ RemoveSucceeds
    \/ RemoveFails
    \/ Abort
    \/ Retry
    \/ \E n \in 1..(numParts + 1) : RetryPart(n)
    \/ RetryFailedParts
    \/ \E n \in PartNumbers : RetryPutSucceeds(n)
    \/ \E n \in PartNumbers : RetryPutFails(n)
    \/ \E n \in PartNumbers : RetryCallTimerFires(n)
    \/ \E n \in PartNumbers, p \in ProgressValues : RetryPartProgress(n, p)

SpecRetry == InitRetry /\ [][NextRetry]_vars


\* ------------------------------------------- uploads into a store in use
\* the keys under which the store may hold an object before the upload: the
\* path itself, the keys of the first parts and the key of another file
UsedKeys == {path, otherKey} \cup {PartKey(path, n) : n \in 1..MaxStoreParts}

\* the handler is constructed for a file of at most MaxStoreParts parts while
\* the store holds objects under some of UsedKeys
InitStore ==
    /\ fileSize \in {f \in FileSizes : f <= MaxStoreParts * CHUNK_SIZE}
    /\ numParts = Ceil(fileSize, CHUNK_SIZE)
    /\ parts = initializePartTracking(fileSize, numParts)
    /\ aborted = FALSE
    /\ abortCalled = FALSE
    /\ activeUploads = {}
    /\ uploadedParts = <<>>
    /\ startPc = "new"
    /\ loopPc = "none"
    /\ launched = 0
    /\ localUploaded = {}
    /\ promise = [i \in 1..numParts |-> "none"]
    /\ call = [i \in 1..numParts |-> NewCall]
    /\ rcall = [i \in 1..numParts |-> NewCall]
    /\ retryOp = NoRetry
    /\ cleanupIdx = 0
    /\ failing = {}
    /\ removeFailed = {}
    /\ \E K \in SUBSET UsedKeys :
          store = [k \in StoreKeys |-> IF k \in K THEN OldObject ELSE NoObject]
    /\ before = store
    /\ putLog = {}
    /\ now = 17 * 100000000
    /\ localStorage = [k \in LSKeys |-> NoItem]
    /\ mgr = [m \in Mgrs |-> NewMgr]
    /\ lastSaved = [id \in UploadIds |-> NullState]
    /\ ticks = 0
    /\ saves = 0
    /\ lastOp = "other"
    /\ ContentUnused

SpecStore == InitStore /\ [][Next]_vars


\* ===================================================== UploadStateManager
\* clock advances: the check interval, and 1 ms more than the stale threshold
TickSteps == {CheckIntervalMs, StaleThresholdMs + 1}

\* the records the program gives to saveUploadState: initializeUpload's,
\* initializeMultipartUpload's and handleError's (whose error.message is
\* undefined when the rejection is not an Error)
SavableStates(id) ==
    {[uploadId |-> id, path |-> path, startTime |-> now,
      completed |-> TRUE, failed |-> FALSE],
     [uploadId |-> id, path |-> path, startTime |-> now,
      completed |-> FALSE, failed |-> FALSE]} \cup
    {Spread(SpreadState(IF Parsable(localStorage[LSKey(id)])
                        THEN getUploadState(localStorage, id) ELSE NullState),
            [failed |-> TRUE, error |-> msg, failedAt |-> now, status |-> "error"]) :
        msg \in {"message", Undefined}}

hInit ==
    /\ fileSize = 0
    /\ numParts = Ceil(fileSize, CHUNK_SIZE)
    /\ parts = initializePartTracking(fileSize, numParts)
    /\ aborted = FALSE
    /\ abortCalled = FALSE
    /\ activeUploads = {}
    /\ uploadedParts = <<>>
    /\ startPc = "new"
    /\ loopPc = "none"
    /\ launched = 0
    /\ localUploaded = {}
    /\ promise = [i \in 1..numParts |-> "none"]
    /\ call = [i \in 1..numParts |-> NewCall]
    /\ rcall = [i \in 1..numParts |-> NewCall]
    /\ retryOp = NoRetry
    /\ cleanupIdx = 0
    /\ failing = {}
    /\ removeFailed = {}
    /\ store = [k \in StoreKeys |-> NoObject]
    /\ before = store
    /\ putLog = {}

\* the page as it may be found: records left by earlier sessions are written
\* by the actions below
InitSM ==
    /\ hInit
    /\ now = 17 * 100000000
    /\ localStorage = [k \in LSKeys |-> IF k = "theme" THEN [kind |-> "text", text |-> "dark"]
                                        ELSE NoItem]
    /\ mgr = [m \in Mgrs |-> NewMgr]
    /\ lastSaved = [id \in UploadIds |-> NullState]
    /\ ticks = 0
    /\ saves = 0
    /\ lastOp = "other"
    /\ ContentUnused

Tick(d) ==
    /\ ticks < MaxTicks
    /\ ticks' = ticks + 1
    /\ now' = now + d
    /\ lastOp' = "other"
    /\ UNCHANGED <<hvars, cvars, localStorage, mgr, lastSaved, saves>>

SaveUploadState(m, id, s) ==
    /\ saves < MaxSaves
    /\ saves' = saves + 1
    /\ localStorage' = saveUploadState(localStorage, id, s)
    /\ lastSaved' = [lastSaved EXCEPT ![id] = Stamped(s)]
    /\ lastOp' = "other"
    /\ UNCHANGED <<hvars, cvars, now, mgr, ticks>>

RemoveUploadState(m, id) ==
    /\ localStorage' = removeUploadState(localStorage, id)
    /\ lastSaved' = [lastSaved EXCEPT ![id] = NullState]
    /\ lastOp' = "other"
    /\ UNCHANGED <<hvars, cvars, now, mgr, ticks, saves>>

\* something else than saveUploadState leaves text that is no JSON under an
\* upload key
ForeignWrite(id) ==
    /\ localStorage[LSKey(id)] # Garbage
    /\ localStorage' = [localStorage EXCEPT ![LSKey(id)] = Garbage]
    /\ lastSaved' = [lastSaved EXCEPT ![id] = NullState]
    /\ lastOp' = "other"
    /\ UNCHANGED <<hvars, cvars, now, mgr, ticks, saves>>

\* another script of the page, or an earlier version of it, leaves a record
\* with a timestamp under an upload key
ForeignRecords(id) ==
    {[uploadId |-> id, path |-> path, timestamp |-> now],
     [uploadId |-> id, timestamp |-> now]}

ForeignRecord(id, r) ==
    /\ saves < MaxSaves
    /\ saves' = saves + 1
    /\ localStorage' = [localStorage EXCEPT ![LSKey(id)] = JSONstringify(r)]
    /\ lastSaved' = [lastSaved EXCEPT ![id] = NullState]
    /\ lastOp' = "other"
    /\ UNCHANGED <<hvars, cvars, now, mgr, ticks>>

\* the end of checkAndCleanup's try block and its finally
CleanupFinished(m, ls, checkNow, running) ==
    /\ localStorage' = [ls EXCEPT !["lastCleanupTime"] = NumToString(checkNow)]
    /\ mgr' = [mgr EXCEPT ![m] = [NewMgr EXCEPT !.running = running]]

\* the ghost record of every id whose key is among removed is cleared
Forget(removed) ==
    lastSaved' = [id \in UploadIds |->
                    IF LSKey(id) \in removed THEN NullState ELSE lastSaved[id]]

\* performCleanup is suspended where run ends
Suspended(m, run) ==
    [mgr[m] EXCEPT !.pc = run.pc, !.states = run.states, !.left = run.left,
                   !.log = run.log]

\* checkAndCleanup(), up to the first await of performCleanup that suspends it
CheckAndCleanup(m) ==
    /\ lastOp' = "checkAndCleanup"
    /\ IF AlreadyRunning(m)
          \/ ~cleanupNeeded(now, ParseIntOr0(localStorage["lastCleanupTime"]))
       THEN UNCHANGED <<localStorage, mgr, lastSaved>>
       ELSE \E last \in SUBSET {k \in UploadKeys : localStorage[k] # NoItem} :
            LET states == getAllUploadStates(localStorage, last)
                run == RunBatch(localStorage, states, 1, BatchSize(states), <<>>, {}, now)
            IN  /\ Forget(run.removed)
                /\ IF Len(states) = 0
                   THEN CleanupFinished(m, run.ls, now, mgr[m].running)
                   ELSE /\ localStorage' = run.ls
                        /\ mgr' = [mgr EXCEPT ![m] =
                                     [Suspended(m, run) EXCEPT
                                         !.isCleanupRunning = TRUE,
                                         !.checkNow = now,
                                         !.running = @ + 1]]
    /\ UNCHANGED <<hvars, cvars, now, ticks, saves>>

\* the setTimeout(resolve, 0) after a batch fires: the next batch, or the end
\* of performCleanup and of checkAndCleanup
CleanupResumes(m) ==
    /\ mgr[m].pc = "paused"
    /\ IF mgr[m].states # <<>>
       THEN LET run == RunBatch(localStorage, mgr[m].states, 1,
                                BatchSize(mgr[m].states), mgr[m].log, {},
                                mgr[m].checkNow)
            IN  /\ Forget(run.removed)
                /\ localStorage' = run.ls
                /\ mgr' = [mgr EXCEPT ![m] = Suspended(m, run)]
                /\ lastOp' = "performCleanup"
       ELSE /\ CleanupFinished(m, localStorage, mgr[m].checkNow, mgr[m].running - 1)
            /\ lastOp' = "performCleanup"
            /\ UNCHANGED lastSaved
    /\ UNCHANGED <<hvars, cvars, now, ticks, saves>>

\* the setTimeout after the last batch fires and performCleanup returns, but
\* the localStorage.setItem of checkAndCleanup throws (the storage is full):
\* the finally block runs
SetItemThrows(m) ==
    /\ mgr[m].pc = "paused"
    /\ mgr[m].states = <<>>
    /\ mgr' = [mgr EXCEPT ![m] = [NewMgr EXCEPT !.running = mgr[m].running - 1]]
    /\ lastOp' = "cleanupThrew"
    /\ UNCHANGED <<hvars, cvars, now, localStorage, lastSaved, ticks, saves>>

\* the Storage.cancel of abortMultipartUpload settles: the record is removed
\* and the batch goes on
CancelSettles(m, ok) ==
    /\ mgr[m].pc = "cancel"
    /\ LET key == Head(mgr[m].states).key
           settled == Append(mgr[m].log,
                             Called(IF ok THEN "cancelled" ELSE "cancelRejected", key))
           run == IF CancelCaught(ok)
                  THEN RunBatch([localStorage EXCEPT ![key] = NoItem],
                                mgr[m].states, 2, mgr[m].left,
                                Append(settled, Called("remove", key)), {key},
                                mgr[m].checkNow)
                  ELSE RunBatch(localStorage, mgr[m].states, 2, mgr[m].left,
                                settled, {}, mgr[m].checkNow)
       IN  /\ Forget(run.removed)
           /\ localStorage' = run.ls
           /\ mgr' = [mgr EXCEPT ![m] = Suspended(m, run)]
    /\ lastOp' = "performCleanup"
    /\ UNCHANGED <<hvars, cvars, now, ticks, saves>>

\* the page is reloaded: the instance is constructed anew, its timers are gone
Reload(m) ==
    /\ mgr[m] # NewMgr
    /\ mgr' = [mgr EXCEPT ![m] = NewMgr]
    /\ lastOp' = "other"
    /\ UNCHANGED <<hvars, cvars, now, localStorage, lastSaved, ticks, saves>>

NextSM ==
    \/ \E d \in TickSteps : Tick(d)
    \/ \E m \in Mgrs, id \in UploadIds : \E s \in SavableStates(id) : SaveUploadState(m, id, s)
    \/ \E m \in Mgrs, id \in UploadIds : RemoveUploadState(m, id)
    \/ \E id \in UploadIds : ForeignWrite(id)
    \/ \E m \in Mgrs : CheckAndCleanup(m)
    \/ \E m \in Mgrs : CleanupResumes(m)
    \/ \E m \in Mgrs : Reload(m)

SpecSM == InitSM /\ [][NextSM]_vars

\* the manager where localStorage also holds records with a timestamp and
\* the storage may be full; the records of the uploads of this session, which
\* no cleanup removes or aborts, are left out
NextCleanup ==
    \/ \E d \in TickSteps : Tick(d)
    \/ \E m \in Mgrs, id \in UploadIds : RemoveUploadState(m, id)
    \/ \E id \in UploadIds : ForeignWrite(id)
    \/ \E id \in UploadIds : \E r \in ForeignRecords(id) : ForeignRecord(id, r)
    \/ \E m \in Mgrs : CheckAndCleanup(m)
    \/ \E m \in Mgrs : CleanupResumes(m)
    \/ \E m \in Mgrs, ok \in BOOLEAN : CancelSettles(m, ok)
    \/ \E m \in Mgrs : SetItemThrows(m)
    \/ \E m \in Mgrs : Reload(m)

SpecCleanup == InitSM /\ [][NextCleanup]_vars

\* the record a finished upload of an earlier session has left
FillerRecord(id) ==
    JSONstringify([uploadId |-> id, path |-> path, startTime |-> now,
                   completed |-> TRUE, failed |-> FALSE, lastUpdated |-> now])

\* the page after BATCH_SIZE uploads of earlier sessions
InitBatch ==
    /\ hInit
    /\ now = 17 * 100000000
    /\ localStorage = [k \in LSKeys |->
                          IF k \in FillerKeys
                          THEN FillerRecord(CHOOSE id \in FillerIds : LSKey(id) = k)
                          ELSE NoItem]
    /\ mgr = [m \in Mgrs |-> NewMgr]
    /\ lastSaved = [id \in UploadIds |-> NullState]
    /\ ticks = 0
    /\ saves = 0
    /\ lastOp = "other"
    /\ ContentUnused

\* one page, without reloads and without removeUploadState
NextBatch ==
    \/ \E d \in TickSteps : Tick(d)
    \/ \E id \in UploadIds : \E s \in SavableStates(id) : SaveUploadState(1, id, s)
    \/ \E id \in UploadIds : ForeignWrite(id)
    \/ CheckAndCleanup(1)
    \/ CleanupResumes(1)

SpecBatch == InitBatch /\ [][NextBatch]_vars


\* ============================================================== Content
\* A key is a sequence of atoms: pieces of text that the code never takes
\* apart. Atoms are numbered in the order of their text.
Keep == 1          \* ".keep"
Slash == 2         \* "/"
LetterA == 3       \* "a"
BigFolder == 5     \* "big"
\* the name of the i-th file of the big folder: "f0001", "f0002", ...
FileName(i) == 10 + i

Alphabet == {Keep, Slash, LetterA}

\* key.startsWith(p), key.endsWith(p)
StartsWith(k, p) == Len(p) <= Len(k) /\ SubSeq(k, 1, Len(p)) = p
EndsWith(k, p) == Len(p) <= Len(k) /\ SubSeq(k, Len(k) - Len(p) + 1, Len(k)) = p

\* k.indexOf(p) + 1
IndexOf(k, p) ==
    LET I == {i \in 1..(Len(k) - Len(p) + 1) : SubSeq(k, i, i + Len(p) - 1) = p}
    IN  IF I = {} THEN 0 ELSE CHOOSE i \in I : \A j \in I : i <= j

\* k.includes(p)
Includes(k, p) == IndexOf(k, p) # 0

\* k.replace(p, w) with a string pattern: the first occurrence, wherever it is
Replace(k, p, w) ==
    LET i == IndexOf(k, p)
    IN  IF i = 0 THEN k
        ELSE SubSeq(k, 1, i - 1) \o w \o SubSeq(k, i + Len(p), Len(k))

RECURSIVE Split(_)
\* k.split('/')
Split(k) ==
    LET i == IndexOf(k, <<Slash>>)
    IN  IF i = 0 THEN <<k>>
        ELSE <<SubSeq(k, 1, i - 1)>> \o Split(SubSeq(k, i + 1, Len(k)))

RECURSIVE SeqLess(_, _)
\* a < b in the order of the text
SeqLess(a, b) ==
    IF b = <<>> THEN FALSE
    ELSE IF a = <<>> THEN TRUE
    ELSE IF a[1] # b[1] THEN a[1] < b[1]
    ELSE SeqLess(Tail(a), Tail(b))

\* Storage.list(prefix, {level: 'protected', pageSize}): the first pageSize
\* objects, in key order, whose key starts with prefix
StorageList(objs, prefix) ==
    LET matching == SelectSeq(objs, LAMBDA o : StartsWith(o.key, prefix))
    IN  SubSeq(matching, 1, Min(pageSize, Len(matching)))

\* Storage.remove(key): the objects left
StorageRemove(objs, key) == SelectSeq(objs, LAMBDA o : o.key # key)

\* ------------------------------------------------ listBucketContents (pure)
\* const relativePath = path ? item.key.replace(`${path}/`, '') : item.key
RelativePath(key, p) == IF p # <<>> THEN Replace(key, p \o <<Slash>>, <<>>) ELSE key

\* the folder entry both passes make
FolderEntry(folderName, p) ==
    [key |-> IF p # <<>> THEN p \o <<Slash>> \o folderName ELSE folderName,
     displayName |-> folderName,
     size |-> 0,
     isFolder |-> TRUE]

\* processedItems.set(name, entry)
MapSet(m, name, entry) == (name :> entry) @@ m
EmptyMap == [name \in {} |-> 0]

\* the callback of the first forEach; Storage.list gives items no contentType
FirstPassItem(m, item, p) ==
    IF \/ item.key = p
       \/ Includes(item.key, <<Keep>>)
       \/ EndsWith(item.key, <<Slash, Keep>>)
    THEN m
    ELSE LET folderName == Split(RelativePath(item.key, p))[1] IN
         IF /\ EndsWith(item.key, <<Slash>>) \/ item.size = 0
            /\ folderName # <<>>
            /\ ~Includes(folderName, <<Keep>>)
            /\ folderName \notin DOMAIN m
         THEN MapSet(m, folderName, FolderEntry(folderName, p))
         ELSE m

\* the callback of the second forEach
SecondPassItem(m, item, p) ==
    IF \/ item.key = p
       \/ EndsWith(item.key, <<Slash>>)
       \/ EndsWith(item.key, <<Slash, Keep>>)
    THEN m
    ELSE LET parts_ == Split(RelativePath(item.key, p)) IN
         IF Len(parts_) = 1
         THEN MapSet(m, parts_[1],
                     [key |-> item.key, displayName |-> parts_[1],
                      size |-> item.size, isFolder |-> FALSE])
         ELSE IF ~Includes(parts_[1], <<Keep>>) /\ parts_[1] \notin DOMAIN m
         THEN MapSet(m, parts_[1], FolderEntry(parts_[1], p))
         ELSE m

RECURSIVE FirstPass(_, _, _, _, _)
\* items.forEach of the first pass over items[lo..hi], in order, from map m
FirstPass(items, lo, hi, m, p) ==
    IF lo > hi THEN m
    ELSE IF lo = hi THEN FirstPassItem(m, items[lo], p)
    ELSE LET mid == (lo + hi) \div 2
             done == FirstPass(items, lo, mid, m, p)
         IN  \* the first half is evaluated before the second begins
             IF DOMAIN done = {} THEN FirstPass(items, mid + 1, hi, EmptyMap, p)
             ELSE FirstPass(items, mid + 1, hi, done, p)

RECURSIVE SecondPass(_, _, _, _, _)
SecondPass(items, lo, hi, m, p) ==
    IF lo > hi THEN m
    ELSE IF lo = hi THEN SecondPassItem(m, items[lo], p)
    ELSE LET mid == (lo + hi) \div 2
             done == SecondPass(items, lo, mid, m, p)
         IN  \* the first half is evaluated before the second begins
             IF DOMAIN done = {} THEN SecondPass(items, mid + 1, hi, EmptyMap, p)
             ELSE SecondPass(items, mid + 1, hi, done, p)

\* the comparison of the final sort: folders first, then by displayName
EntryLess(a, b) ==
    \/ a.isFolder /\ ~b.isFolder
    \/ a.isFolder = b.isFolder /\ SeqLess(a.displayName, b.displayName)

RECURSIVE SortEntries(_)
SortEntries(S) ==
    IF S = {} THEN <<>>
    ELSE LET first == CHOOSE e \in S : \A f \in S \ {e} : EntryLess(e, f)
         IN  <<first>> \o SortEntries(S \ {first})

\* the contents listBucketContents(p) shows for the items Storage.list returned
ProcessedContents(items, p) ==
    LET m == SecondPass(items, 1, Len(items),
                        FirstPass(items, 1, Len(items), EmptyMap, p), p)
    IN  SortEntries({m[name] : name \in
                        {n \in DOMAIN m : ~Includes(m[n].displayName, <<Keep>>)}})

\* --------------------------------------------------------- Content: inputs
\* the keys of the small stores: sequences of up to MaxKeyLen atoms that begin
\* with a name and have no empty segment inside
SmallKeys ==
    {k \in UNION {[1..l -> Alphabet] : l \in 1..MaxKeyLen} :
        /\ k[1] # Slash
        /\ \A i \in 1..(Len(k) - 1) : ~(k[i] = Slash /\ k[i + 1] = Slash)}

ObjectSizes == {0, 7}

\* the objects of S in key order
RECURSIVE InKeyOrder(_)
InKeyOrder(S) ==
    IF S = {} THEN <<>>
    ELSE LET first == CHOOSE o \in S : \A q \in S \ {o} : SeqLess(o.key, q.key)
         IN  <<first>> \o InKeyOrder(S \ {first})

RECURSIVE UpTo(_, _)
\* the subsets of S of at most n elements
UpTo(S, n) ==
    IF n = 0 THEN {{}}
    ELSE LET smaller == UpTo(S, n - 1)
         IN  smaller \cup {T \cup {o} : T \in smaller, o \in S}

\* the stores of up to MaxObjects objects with different keys
SmallStores ==
    {InKeyOrder(S) : S \in {T \in UpTo([key : SmallKeys, size : ObjectSizes], MaxObjects) :
                              \A o, q \in T : o.key = q.key => o = q}}

\* a store with one folder 'big' of MaxFolderObjects files
BigStore ==
    [i \in 1..MaxFolderObjects |->
        [key |-> <<BigFolder, Slash, FileName(i)>>, size |-> 7]]

\* the folders the user opens
OpenablePaths == {<<LetterA>>}

InitContent ==
    /\ hInit
    /\ now = 17 * 100000000
    /\ localStorage = [k \in LSKeys |-> NoItem]
    /\ mgr = [m \in Mgrs |-> NewMgr]
    /\ lastSaved = [id \in UploadIds |-> NullState]
    /\ ticks = 0
    /\ saves = 0
    /\ lastOp = "other"
    /\ objects \in SmallStores \cup {BigStore}
    /\ ui = NewContent
    /\ lastDelete = NoDelete

\* --------------------------------------------------------- Content: actions
\* listBucketContents(p) up to its Storage.list
ListBucketContentsCalled(u, p, caller) ==
    [u EXCEPT !.bucketContents = [loading |-> TRUE, items |-> <<>>],
              !.pc = "listing", !.listPath = p, !.caller = caller,
              !.listed = FALSE, !.results = <<>>]

\* the bucket's link is followed: the root is listed
OpenBucket ==
    /\ ui.pc = "idle"
    /\ ~ui.showDeleteConfirmation
    /\ ui' = ListBucketContentsCalled([ui EXCEPT !.currentPath = <<>>], <<>>, "user")
    /\ UNCHANGED <<hvars, mvars, localStorage, objects, lastDelete>>

\* item.key.replace(/\/\.keep$|\/$/, '')
NormalizedKey(key) ==
    IF EndsWith(key, <<Slash, Keep>>) THEN SubSeq(key, 1, Len(key) - 2)
    ELSE IF EndsWith(key, <<Slash>>) THEN SubSeq(key, 1, Len(key) - 1)
    ELSE key

\* the link of the folder shown at position i is followed
EnterFolder(i) ==
    /\ ui.pc = "idle"
    /\ ~ui.showDeleteConfirmation
    /\ ~ui.bucketContents.loading
    /\ i \in DOMAIN ui.bucketContents.items
    /\ ui.bucketContents.items[i].isFolder
    /\ LET normalizedKey == NormalizedKey(ui.bucketContents.items[i].key) IN
       /\ normalizedKey \in OpenablePaths
       /\ ui' = ListBucketContentsCalled([ui EXCEPT !.currentPath = normalizedKey],
                                         normalizedKey, "user")
    /\ UNCHANGED <<hvars, mvars, localStorage, objects, lastDelete>>

\* what follows listBucketContents in the function that awaited it
AfterList(u) ==
    CASE u.caller = "deleteTry" ->
            [u EXCEPT !.pc = "idle", !.showDeleteConfirmation = FALSE,
                      !.itemToDelete = <<>>]
      [] u.caller = "deleteCatch" -> [u EXCEPT !.pc = "idle", !.itemToDelete = <<>>]
      [] OTHER -> [u EXCEPT !.pc = "idle"]

DeleteOutcome(caller) ==
    CASE caller = "deleteTry" -> "ok"
      [] caller = "deleteCatch" -> "error"
      [] OTHER -> lastDelete.outcome

\* the Storage.list of listBucketContents resolves
ListResolves ==
    /\ ui.pc = "listing"
    /\ LET results == StorageList(objects, ui.listPath) IN
       ui' = AfterList([ui EXCEPT
                !.bucketContents = [loading |-> FALSE,
                                    items |-> ProcessedContents(results, ui.listPath)],
                !.results = results,
                !.listed = TRUE])
    /\ lastDelete' = [lastDelete EXCEPT !.outcome = DeleteOutcome(ui.caller)]
    /\ UNCHANGED <<hvars, mvars, localStorage, objects>>

\* the Storage.list of listBucketContents rejects: its catch shows nothing
ListFails ==
    /\ ui.pc = "listing"
    /\ ui' = AfterList([ui EXCEPT
                !.bucketContents = [loading |-> FALSE, items |-> <<>>],
                !.visibleAlert = TRUE])
    /\ lastDelete' = [lastDelete EXCEPT !.outcome = DeleteOutcome(ui.caller)]
    /\ UNCHANGED <<hvars, mvars, localStorage, objects>>

\* the Delete button of the item shown at position i
AskDelete(i) ==
    /\ ui.pc = "idle"
    /\ ~ui.showDeleteConfirmation
    /\ ~ui.bucketContents.loading
    /\ i \in DOMAIN ui.bucketContents.items
    /\ ui' = [ui EXCEPT !.itemToDelete = <<ui.bucketContents.items[i]>>,
                        !.showDeleteConfirmation = TRUE]
    /\ UNCHANGED <<hvars, mvars, localStorage, objects, lastDelete>>

\* the Cancel button of the confirmation
CancelDelete ==
    /\ ui.pc = "idle"
    /\ ui.showDeleteConfirmation
    /\ ui' = [ui EXCEPT !.itemToDelete = <<>>, !.showDeleteConfirmation = FALSE]
    /\ UNCHANGED <<hvars, mvars, localStorage, objects, lastDelete>>

\* handleDelete() up to its first Storage call
HandleDelete ==
    /\ ui.pc = "idle"
    /\ ui.showDeleteConfirmation
    /\ ui.itemToDelete # <<>>
    /\ ui' = [ui EXCEPT !.pc = IF ui.itemToDelete[1].isFolder THEN "deleteListing"
                               ELSE "removingFile"]
    /\ lastDelete' = [lastDelete EXCEPT !.item = ui.itemToDelete, !.before = objects,
                                        !.outcome = "running"]
    /\ UNCHANGED <<hvars, mvars, localStorage, objects>>

\* handleDelete's catch block, up to the Storage.list of listBucketContents
DeleteCatch(u) ==
    ListBucketContentsCalled([u EXCEPT !.visibleAlert = TRUE, !.toRemove = <<>>],
                             u.currentPath, "deleteCatch")

\* the loop over folderContents.results goes on, or the folder marker is removed
RemoveNext(u, rest) ==
    [u EXCEPT !.toRemove = rest,
              !.pc = IF rest = <<>> THEN "removingMarker" ELSE "removing"]

\* the Storage.list of handleDelete resolves
DeleteListResolves ==
    /\ ui.pc = "deleteListing"
    /\ LET folderContents ==
               StorageList(objects, ui.itemToDelete[1].key \o <<Slash>>)
       IN  ui' = RemoveNext(ui, [i \in 1..Len(folderContents) |-> folderContents[i].key])
    /\ UNCHANGED <<hvars, mvars, localStorage, objects, lastDelete>>

DeleteListFails ==
    /\ ui.pc = "deleteListing"
    /\ ui' = DeleteCatch(ui)
    /\ UNCHANGED <<hvars, mvars, localStorage, objects, lastDelete>>

\* the Storage.remove of the loop resolves
ItemRemoveSucceeds ==
    /\ ui.pc = "removing"
    /\ objects' = StorageRemove(objects, Head(ui.toRemove))
    /\ ui' = RemoveNext(ui, Tail(ui.toRemove))
    /\ UNCHANGED <<hvars, mvars, localStorage, lastDelete>>

\* the Storage.remove of the loop rejects; one of the first MaxRejectedAt
\* removals of a delete may, MaxRejections times in a run
ItemRemoveFails ==
    /\ ui.pc = "removing"
    /\ Len(lastDelete.before) - Len(objects) < MaxRejectedAt
    /\ lastDelete.rejections < MaxRejections
    /\ ui' = DeleteCatch(ui)
    /\ lastDelete' = [lastDelete EXCEPT !.rejections = @ + 1]
    /\ UNCHANGED <<hvars, mvars, localStorage, objects>>

\* the wait of 2000 ms before the list is refreshed
DeleteWaits(u) == [u EXCEPT !.pc = "deleteWait"]

\* the Storage.remove of the folder marker resolves
MarkerRemoveSucceeds ==
    /\ ui.pc = "removingMarker"
    /\ objects' = StorageRemove(objects, ui.itemToDelete[1].key \o <<Slash>>)
    /\ ui' = DeleteWaits(ui)
    /\ UNCHANGED <<hvars, mvars, localStorage, lastDelete>>

MarkerRemoveFails ==
    /\ ui.pc = "removingMarker"
    /\ ui' = DeleteCatch(ui)
    /\ UNCHANGED <<hvars, mvars, localStorage, objects, lastDelete>>

\* the Storage.remove of a file item resolves
FileRemoveSucceeds ==
    /\ ui.pc = "removingFile"
    /\ objects' = StorageRemove(objects, ui.itemToDelete[1].key)
    /\ ui' = DeleteWaits(ui)
    /\ UNCHANGED <<hvars, mvars, localStorage, lastDelete>>

FileRemoveFails ==
    /\ ui.pc = "removingFile"
    /\ ui' = DeleteCatch(ui)
    /\ UNCHANGED <<hvars, mvars, localStorage, objects, lastDelete>>

\* the timer of handleDelete fires: the current path is listed again
DeleteWaitEnds ==
    /\ ui.pc = "deleteWait"
    /\ ui' = ListBucketContentsCalled(ui, ui.currentPath, "deleteTry")
    /\ UNCHANGED <<hvars, mvars, localStorage, objects, lastDelete>>

NextContent ==
    \/ OpenBucket
    \/ \E i \in 1..(MaxObjects + 1) : EnterFolder(i)
    \/ ListResolves
    \/ ListFails
    \/ \E i \in 1..(MaxObjects + 1) : AskDelete(i)
    \/ CancelDelete
    \/ HandleDelete
    \/ DeleteListResolves
    \/ DeleteListFails
    \/ ItemRemoveSucceeds
    \/ ItemRemoveFails
    \/ MarkerRemoveSucceeds
    \/ MarkerRemoveFails
    \/ FileRemoveSucceeds
    \/ FileRemoveFails
    \/ DeleteWaitEnds

SpecContent == InitContent /\ [][NextContent]_vars


\* ================================================================= claims
\* the uploadPart calls that have started and have not settled
InFlight == {i \in DOMAIN call : call[i].pc \in {"put", "wait"}}

\* C1: while uploadParts runs, the number of part uploads in flight at the same
\* time never exceeds CONCURRENT_UPLOADS.
C1_BoundedConcurrency ==
    loopPc \in {"race", "all"} => Cardinality(InFlight) <= CONCURRENT_UPLOADS

\* C2: uploadPart issues at most MAX_RETRIES Storage.put attempts for its part
\* and ends in one of two ways: returned, with the part 'completed' at progress
\* 100 and its result handed on; or thrown after exactly MAX_RETRIES failed
\* attempts, with the part in 'error' at progress 0 and its promise rejected.
C2_UploadPartOutcome ==
    \A n \in DOMAIN call :
        /\ call[n].attempts <= MAX_RETRIES
        /\ call[n].pc = "returned" =>
              /\ parts[n].status = "completed"
              /\ parts[n].progress = 100
              /\ n \in localUploaded
              /\ promise[n] = "fulfilled"
        /\ call[n].pc = "thrown" =>
              /\ call[n].attempts = MAX_RETRIES
              /\ parts[n].status = "error"
              /\ parts[n].progress = 0
              /\ n \notin localUploaded
              /\ promise[n] = "rejected"
        /\ call[n].pc \in {"put", "wait"} => call[n].retries < MAX_RETRIES

C2_Witness ==
    /\ \E n \in DOMAIN call : call[n].pc = "thrown" /\ call[n].attempts = MAX_RETRIES
    /\ \E n \in DOMAIN call : call[n].pc = "returned"

\* the base delay the claim gives for the wait after failed attempt k
C3_Base(k) ==
    CASE k = 1 -> 1000 [] k = 2 -> 2000 [] k = 3 -> 4000 [] k = 4 -> 8000
      [] OTHER -> 32000

\* C3: after failed attempt k (1 <= k < MAX_RETRIES) the handler waits
\* min(1000 * 2^(k-1), 32000) ms plus a jitter below 1000 ms; during the wait
\* the part is 'retrying' and has no Storage.put in flight, and a Storage.put of
\* the part is in flight only when nothing is left of a wait.
C3_Backoff ==
    \A n \in DOMAIN call :
        /\ call[n].pc = "wait" =>
              /\ call[n].retries \in 1..(MAX_RETRIES - 1)
              /\ call[n].delay - C3_Base(call[n].retries) \in 0..999
              /\ C3_Base(call[n].retries) <= maxRetryDelay
              /\ call[n].remaining \in 0..call[n].delay
              /\ parts[n].status = "retrying"
              /\ n \notin activeUploads
        /\ call[n].pc = "put" => call[n].remaining = 0

C3_Witness ==
    \E n \in DOMAIN call :
        /\ call[n].pc = "wait"
        /\ call[n].retries = 4
        /\ call[n].delay = 8999
        /\ call[n].remaining > 0

RECURSIVE C4_SumOfSizes(_)
C4_SumOfSizes(n) == IF n = 0 THEN 0 ELSE parts[n].size + C4_SumOfSizes(n - 1)

\* C4: for a file of s bytes, initializePartTracking creates ceil(s / CHUNK_SIZE)
\* parts numbered from 1; part i covers [(i-1)*CHUNK_SIZE, min(i*CHUNK_SIZE, s)),
\* its size is endByte - startByte > 0, the parts are contiguous from 0 to s,
\* their sizes sum to s, and uploadParts sends the same range for each part.
C4_PartLayout ==
    /\ numParts * CHUNK_SIZE >= fileSize
    /\ numParts > 0 => (numParts - 1) * CHUNK_SIZE < fileSize
    /\ DOMAIN parts = 1..numParts
    /\ \A i \in 1..numParts :
          /\ parts[i].partNumber = i
          /\ parts[i].startByte = (i - 1) * CHUNK_SIZE
          /\ parts[i].endByte <= i * CHUNK_SIZE
          /\ parts[i].endByte <= fileSize
          /\ parts[i].endByte = i * CHUNK_SIZE \/ parts[i].endByte = fileSize
          /\ parts[i].size = parts[i].endByte - parts[i].startByte
          /\ parts[i].size > 0
          /\ i > 1 => parts[i].startByte = parts[i - 1].endByte
    /\ numParts > 0 => parts[1].startByte = 0 /\ parts[numParts].endByte = fileSize
    /\ C4_SumOfSizes(numParts) = fileSize
    /\ \A r \in putLog :
          r.part # 0 => /\ r.content.from = parts[r.part].startByte
                        /\ r.content.to = parts[r.part].endByte

C4_Witness ==
    /\ numParts >= 3
    /\ fileSize % CHUNK_SIZE # 0
    /\ \E r \in putLog : r.part = numParts
    /\ parts[numParts].size < CHUNK_SIZE

\* C5: once a cleanup has finished and recorded its time, localStorage holds no
\* upload record that saveUploadState wrote more than STALE_THRESHOLD_HOURS
\* before that cleanup.
C5_NoStaleRecordAfterCleanup ==
    localStorage["lastCleanupTime"].kind = "digits" =>
        \A k \in UploadKeys :
            Parsable(localStorage[k]) =>
                ~(JSONparse(localStorage[k]).lastUpdated
                    < localStorage["lastCleanupTime"].n - StaleThresholdMs)

\* C6: after saveUploadState(id, s), getUploadState(id) returns s with
\* lastUpdated added, on whichever instance and after whichever reload, until
\* removeUploadState(id) or a cleanup removes the record; for an id without a
\* record it returns null.
C6_SaveGetRoundTrip ==
    \A id \in UploadIds :
        IF lastSaved[id] # NullState
        THEN /\ Parsable(localStorage[LSKey(id)])
             /\ getUploadState(localStorage, id) = Defined(lastSaved[id])
             /\ "lastUpdated" \in DOMAIN getUploadState(localStorage, id)
        ELSE localStorage[LSKey(id)] = NoItem =>
                getUploadState(localStorage, id) = NullState

C6_Witness ==
    \E id \in UploadIds :
        /\ lastSaved[id] # NullState
        /\ "error" \in DOMAIN lastSaved[id]
        /\ lastSaved[id].error = Undefined
        /\ "startTime" \in DOMAIN lastSaved[id]
        /\ lastSaved[id].lastUpdated < now
        /\ \E other \in UploadIds : other # id /\ localStorage[LSKey(other)] = NoItem

\* C7: checkAndCleanup runs performCleanup only when more than
\* CHECK_INTERVAL_MINUTES have passed since the lastCleanupTime in localStorage
\* (or none is stored); a cleanup that finishes stores the time of its check as
\* lastCleanupTime; a checkAndCleanup made within the interval changes nothing.
C7_CleanupInterval ==
    [][ LET lastCleanup == ParseIntOr0(localStorage["lastCleanupTime"])
            due == (now - lastCleanup) > CheckIntervalMs
        IN  /\ lastOp' = "checkAndCleanup" =>
                 /\ ~due => localStorage' = localStorage /\ mgr' = mgr
                 /\ \A m \in Mgrs :
                       ~mgr[m].isCleanupRunning /\ mgr'[m].isCleanupRunning => due
                 /\ \A k \in LSKeys : localStorage'[k] # localStorage[k] => due
                 /\ localStorage'["lastCleanupTime"] # localStorage["lastCleanupTime"]
                       => localStorage'["lastCleanupTime"] = NumToString(now)
            /\ lastOp' = "performCleanup" =>
                 \A m \in Mgrs :
                     mgr[m].pc = "paused" /\ mgr'[m].pc = "idle" =>
                         localStorage'["lastCleanupTime"] = NumToString(mgr[m].checkNow)
      ]_vars

C7_Witness ==
    /\ lastOp = "checkAndCleanup"
    /\ localStorage["lastCleanupTime"].kind = "digits"
    /\ now - localStorage["lastCleanupTime"].n = CheckIntervalMs
    /\ \E k \in UploadKeys : localStorage[k] = Garbage
    /\ \A m \in Mgrs : ~mgr[m].isCleanupRunning

\* C8: every part n is sent by a Storage.put of its own to `${path}_part${n}`
\* with exactly the bytes of part n; two parts never write the same key and no
\* part write goes to path.
C8_PartKeys ==
    /\ \A r \in putLog :
          r.part # 0 =>
              /\ r.key = path \o "_part" \o ToString(r.part)
              /\ r.key # path
              /\ r.content = [from |-> parts[r.part].startByte,
                              to |-> parts[r.part].endByte]
              /\ \A q \in putLog : q.key = r.key => q.part = r.part
    /\ \A n \in DOMAIN call : call[n].pc \in {"put", "wait", "returned", "thrown"} =>
          \E r \in putLog : r.part = n
    /\ \A n \in DOMAIN parts :
          store[PartKey(path, n)] # NoObject =>
              store[PartKey(path, n)] = [from |-> parts[n].startByte,
                                         to |-> parts[n].endByte]

C8_Witness ==
    /\ numParts >= 2
    /\ \A n \in DOMAIN parts : \E r \in putLog : r.part = n
    /\ \E n \in DOMAIN parts : store[PartKey(path, n)] # NoObject
    /\ \E n \in DOMAIN parts : call[n].pc = "put" /\ call[n].attempts > 1

\* C9: once start() has resolved true, path holds the whole file and the part
\* object of every part is gone unless its Storage.remove was rejected; a
\* rejected removal is followed by the removal of the remaining parts and never
\* by start() failing.
C9_CompletedUpload ==
    /\ startPc = "resolvedTrue" =>
          /\ store[path] = [from |-> 0, to |-> fileSize]
          /\ \A n \in 1..numParts :
                store[PartKey(path, n)] # NoObject <=> n \in removeFailed
    /\ removeFailed # {} => startPc \in {"cleaning", "resolvedTrue"}
    /\ startPc = "cleaning" =>
          \A j \in 1..(cleanupIdx - 1) :
              store[PartKey(path, uploadedParts[j])] # NoObject
                  <=> uploadedParts[j] \in removeFailed

C9_Witness ==
    /\ startPc = "resolvedTrue"
    /\ numParts >= 3
    /\ 1 \in removeFailed
    /\ 2 \notin removeFailed
    /\ store[PartKey(path, 2)] = NoObject
    /\ store[PartKey(path, 1)] # NoObject

\* C10: in every report of calculateProgress the four statistics are >= 0 and
\* sum to totalParts, every part is counted in exactly one of them, loadedParts
\* is the number of parts with status 'completed', and status is 'aborted'
\* exactly when abort() has been called, 'in-progress' otherwise.
C10_ProgressStatistics ==
    LET report == calculateProgress
        st == report.statistics
        counted(i) == (IF parts[i].completed THEN 1 ELSE 0)
                      + (IF parts[i].inProgress THEN 1 ELSE 0)
                      + (IF parts[i].error # Null THEN 1 ELSE 0)
    IN  /\ st.completed >= 0 /\ st.inProgress >= 0 /\ st.failed >= 0 /\ st.pending >= 0
        /\ st.completed + st.inProgress + st.failed + st.pending = report.totalParts
        /\ report.totalParts = numParts
        /\ \A i \in DOMAIN parts : counted(i) <= 1
        /\ st.pending = Cardinality({i \in DOMAIN parts : counted(i) = 0})
        /\ st.completed = Cardinality({i \in DOMAIN parts : parts[i].status = "completed"})
        /\ report.loadedParts =
              Cardinality({i \in DOMAIN parts : parts[i].status = "completed"})
        /\ report.status = IF abortCalled THEN "aborted" ELSE "in-progress"

C10_Witness ==
    LET st == calculateProgress.statistics
    IN  /\ st.completed > 0 /\ st.inProgress > 0 /\ st.failed > 0 /\ st.pending > 0
        /\ calculateProgress.status = "aborted"
        /\ \E i \in DOMAIN parts : parts[i].status = "retrying"

\* C14: start() never rejects; when it has resolved true the initialization,
\* every part upload and the completion have finished, and it resolves false
\* only when the upload was aborted.
C14_StartResolvesBoolean ==
    /\ startPc # "rejected"
    /\ startPc = "resolvedTrue" =>
          /\ store[path] = WholeFile
          /\ \A n \in PartNumbers : call[n].pc = "returned"
    /\ startPc = "resolvedFalse" => abortCalled

\* the steps of a run of start(), as changes of its position
C15_FinalWriteStarts == startPc # "completing" /\ startPc' = "completing"
C15_RemovalStarts == startPc # "cleaning" /\ startPc' = "cleaning"
C15_ResolvesTrue == startPc # "resolvedTrue" /\ startPc' = "resolvedTrue"
C15_PartStarts(n) == call[n].pc = "none" /\ call'[n].pc = "put"

\* C15 as stated: in every run of start() the first part upload starts only
\* when the whole-file write of initializeUpload has finished, the final write
\* starts only when every part 1..numParts has completed and none is in
\* flight, the removal of the part objects starts only when the final write
\* has finished, and start() resolves true only after the removals.
C15_StepOrderAnyFile ==
    [][ /\ \A n \in PartNumbers :
              C15_PartStarts(n) => startPc \in {"init", "uploading"}
                                   /\ store'[path] = WholeFile
        /\ C15_FinalWriteStarts =>
              /\ startPc = "uploading"
              /\ \A n \in PartNumbers : /\ call'[n].pc = "returned"
                                        /\ parts'[n].status = "completed"
                                        /\ store'[PartKey(path, n)] = SliceOf(n)
        /\ C15_RemovalStarts => startPc = "completing" /\ store'[path] = WholeFile
        /\ C15_ResolvesTrue => startPc = "cleaning"
      ]_vars

\* C15, for a file of at least one byte: the same order. (For an empty file
\* there are no parts, completeUpload writes nothing and start() resolves true
\* right after the write of initializeUpload.)
C15_StepOrder ==
    [][ /\ \A n \in PartNumbers :
              C15_PartStarts(n) => startPc \in {"init", "uploading"}
                                   /\ store'[path] = WholeFile
        /\ C15_FinalWriteStarts =>
              /\ startPc = "uploading"
              /\ \A n \in PartNumbers : /\ call'[n].pc = "returned"
                                        /\ parts'[n].status = "completed"
                                        /\ store'[PartKey(path, n)] = SliceOf(n)
        /\ C15_RemovalStarts => startPc = "completing" /\ store'[path] = WholeFile
        /\ C15_ResolvesTrue =>
              IF fileSize > 0 THEN startPc = "cleaning"
              ELSE startPc = "init" /\ store'[path] = WholeFile
      ]_vars

C15_Witness ==
    /\ startPc = "resolvedTrue"
    /\ numParts > CONCURRENT_UPLOADS
    /\ failing # {}
    /\ removeFailed = {}
    /\ store[path] = WholeFile
    /\ \A n \in PartNumbers : store[PartKey(path, n)] = NoObject

\* C16: once abort() has been called the handler starts no Storage.put:
\* uploadParts launches no part, no part in backoff is attempted again and
\* completeUpload does not write the final object.
C16_NoPutAfterAbort ==
    [][ abortCalled =>
            /\ \A n \in PartNumbers : ~(call[n].pc # "put" /\ call'[n].pc = "put")
            /\ ~C15_FinalWriteStarts
      ]_vars

\* C17: once abort() has finished, localStorage holds no record of the upload.
C17_NoRecordAfterAbort ==
    abortCalled => localStorage[LSKey(uploadId)] = NoItem

\* C19: the record of the upload has completed: true only when every part has
\* status 'completed' and the final write of path has finished.
C19_CompletedOnlyWhenDone ==
    LET item == localStorage[LSKey(uploadId)] IN
    (Parsable(item) /\ Truthy(JSONparse(item), "completed")) =>
        /\ \A n \in PartNumbers : parts[n].status = "completed"
        /\ startPc \in {"cleaning", "resolvedTrue"}

\* whether start() has settled
Settled == startPc \in {"resolvedTrue", "resolvedFalse", "rejected"}

\* C20: once start() has settled, every object that was in the store under a
\* key other than path when the upload began is still there with its content.
C20_OnlyPathChanges ==
    Settled => \A k \in StoreKeys \ {path} :
                   before[k] # NoObject => store[k] = before[k]

\* the step is a call of retryFailedParts()
C11_Called == retryOp = NoRetry /\ retryOp'.kind = "retryFailedParts"

\* C11: a call of retryFailedParts starts an upload of exactly the parts whose
\* status is 'error' or 'retrying'; it returns true at once when there are
\* none; when it resolves true every part it retried has status 'completed';
\* when a part it retried fails again it throws.
C11_RetryFailedParts ==
    [][ /\ C11_Called =>
              /\ \A n \in PartNumbers :
                     (rcall'[n].pc = "put" /\ rcall[n].pc # "put")
                         <=> parts[n].status \in {"error", "retrying"}
              /\ retryOp'.targets
                     = {n \in PartNumbers : parts[n].status \in {"error", "retrying"}}
              /\ retryOp'.targets = {} <=> retryOp'.pc = "resolvedTrue"
        /\ (retryOp'.kind = "retryFailedParts" /\ retryOp'.pc = "resolvedTrue"
               /\ retryOp.pc # "resolvedTrue") =>
              \A n \in retryOp'.targets : parts'[n].status = "completed"
        /\ (retryOp.kind = "retryFailedParts" /\ retryOp.pc = "running") =>
              \A n \in retryOp.targets :
                  (rcall'[n].pc = "thrown" /\ rcall[n].pc # "thrown")
                      => retryOp'.pc = "rejected"
      ]_vars

\* C18: at any time at most one Storage.put is in flight for a part number,
\* whichever of start(), retry(), retryPart() and retryFailedParts() asked for it.
C18_OnePutPerPart ==
    \A n \in PartNumbers : ~(call[n].pc = "put" /\ rcall[n].pc = "put")

\* the name of key below path p, <<>> when key does not lie below p
C12_NameUnder(key, p) ==
    IF p = <<>> THEN key
    ELSE IF StartsWith(key, p \o <<Slash>>) THEN SubSeq(key, Len(p) + 2, Len(key))
    ELSE <<>>

\* a .keep placeholder
C12_Placeholder(key) == key = <<Keep>> \/ EndsWith(key, <<Slash, Keep>>)

\* the listed objects stored directly under p, placeholders apart
C12_Files(results, p) ==
    {results[i] : i \in {j \in DOMAIN results :
        LET name == C12_NameUnder(results[j].key, p) IN
        /\ name # <<>>
        /\ ~Includes(name, <<Slash>>)
        /\ ~C12_Placeholder(results[j].key)}}

\* the first segments of the listed keys lying deeper under p and of the
\* folder markers, placeholders apart
C12_Folders(results, p) ==
    {Split(C12_NameUnder(results[i].key, p))[1] : i \in {j \in DOMAIN results :
        LET name == C12_NameUnder(results[j].key, p) IN
        /\ Includes(name, <<Slash>>)
        /\ Split(name)[1] # <<>>
        /\ ~C12_Placeholder(results[j].key)}}

\* C12: once listBucketContents(path) has shown what Storage.list returned,
\* every object stored directly under path is shown as a file entry with its
\* key and size, every first segment of a deeper key or of a folder marker is
\* shown as exactly one folder entry with key path/segment, and no display
\* name is shown twice. (A name that is both a file and a folder is left out.)
C12_ListingShowsStore ==
    (ui.listed /\ ~ui.bucketContents.loading) =>
        LET p == ui.listPath
            items == ui.bucketContents.items
            files == C12_Files(ui.results, p)
            folders == C12_Folders(ui.results, p)
            fileNames == {C12_NameUnder(o.key, p) : o \in files}
        IN  /\ \A o \in files :
                   C12_NameUnder(o.key, p) \notin folders =>
                       \E i \in DOMAIN items :
                           items[i] = [key |-> o.key,
                                       displayName |-> C12_NameUnder(o.key, p),
                                       size |-> o.size, isFolder |-> FALSE]
            /\ \A d \in folders \ fileNames :
                   /\ Cardinality({i \in DOMAIN items :
                                      items[i].isFolder /\ items[i].displayName = d}) = 1
                   /\ \E i \in DOMAIN items : items[i] = FolderEntry(d, p)
            /\ \A i, j \in DOMAIN items :
                   items[i].displayName = items[j].displayName => i = j

\* C13: when handleDelete has completed without error, for a folder item no
\* object of the store has a key that starts with the folder's key and '/',
\* and the objects outside that prefix are the ones that were there; for a
\* file item the store is what it was without the object of that key.
C13_DeleteRemovesItem ==
    lastDelete.outcome = "ok" =>
        LET item == lastDelete.item[1] IN
        IF item.isFolder
        THEN objects = SelectSeq(lastDelete.before,
                                 LAMBDA o : ~StartsWith(o.key, item.key \o <<Slash>>))
        ELSE objects = StorageRemove(lastDelete.before, item.key)

\* the step in which start() catches what one of its steps threw
C21_StartCatches == startPc # "rejected" /\ startPc' = "rejected"

\* the fields handleError and saveUploadState set themselves
C21_OwnFields == {"failed", "error", "failedAt", "status", "lastUpdated"}

\* C21: when a step of start() throws, the record of the upload in
\* localStorage afterwards has failed = true, status = 'error', the error's
\* message and failedAt = the time of the call, every other field of the
\* record that was saved before with its value, and is the record the
\* progress listeners are notified of.
C21_HandleErrorRecord ==
    [][ C21_StartCatches =>
            LET prev == SpreadState(getUploadState(localStorage, uploadId))
                item == localStorage'[LSKey(uploadId)]
            IN  /\ Parsable(item)
                /\ LET r == JSONparse(item) IN
                   /\ r.failed = TRUE
                   /\ r.status = "error"
                   /\ r.error = "message"
                   /\ r.failedAt = now
                   /\ \A f \in DOMAIN prev \ C21_OwnFields :
                          f \in DOMAIN r /\ r[f] = prev[f]
                   /\ DOMAIN r \subseteq DOMAIN prev \cup C21_OwnFields
                   /\ lastSaved'[uploadId] = r
      ]_vars

\* start() has rejected and the record holds the error beside what
\* initializeUpload saved
C21_Witness ==
    /\ startPc = "rejected"
    /\ Parsable(localStorage[LSKey(uploadId)])
    /\ LET r == JSONparse(localStorage[LSKey(uploadId)]) IN
       /\ r.failed = TRUE
       /\ "path" \in DOMAIN r /\ r.path = path
       /\ "startTime" \in DOMAIN r

\* C22: an UploadStateManager never has more than one performCleanup that
\* has not returned, whatever the order of the checkAndCleanup calls and of
\* the timers, and isCleanupRunning is true exactly while one is running: it
\* is false again after the cleanup has ended or thrown.
C22_OneCleanup ==
    \A m \in Mgrs :
        /\ mgr[m].running <= 1
        /\ mgr[m].isCleanupRunning <=> mgr[m].running = 1

\* checkAndCleanup has been called on a manager whose performCleanup, begun
\* at an earlier time, waits for its timer, and a cleanup is due: no other
\* manager has run, lastCleanupTime has never been written
C22_Witness ==
    /\ lastOp = "checkAndCleanup"
    /\ localStorage["lastCleanupTime"] = NoItem
    /\ mgr[2] = NewMgr
    /\ mgr[1].isCleanupRunning
    /\ mgr[1].pc = "paused"
    /\ mgr[1].checkNow < now
    /\ cleanupNeeded(now, 0)

\* C23: two UploadStateManager instances that share one localStorage never
\* have a performCleanup each that has not returned.
C23_OneCleanupAcrossInstances ==
    Cardinality({m \in Mgrs : mgr[m].running > 0}) <= 1

\* every removeItem of a record with an uploadId comes after the
\* abortMultipartUpload for the same key, and the removeItem follows at once
\* when its Storage.cancel has settled, fulfilled or rejected
C25_AbortBeforeRemove ==
    \A m \in Mgrs :
        LET log == mgr[m].log IN
        \A i \in 1..Len(log) :
            /\ log[i].op = "remove" =>
                   \E j \in 1..(i - 1) : log[j] = Called("abort", log[i].key)
            /\ log[i].op \in {"cancelled", "cancelRejected"} =>
                   /\ i < Len(log)
                   /\ log[i + 1] = Called("remove", log[i].key)

\* the step of manager m in which the Storage.cancel it waits for settles
C25_Settles(m) ==
    /\ mgr[m].pc = "cancel"
    /\ mgr'[m] # mgr[m]
    /\ lastOp' = "performCleanup"

\* after the step the performCleanup of m has gone on through its batch: it
\* waits at the Storage.cancel of a later record or at the setTimeout after
\* the batch, and every record it has passed that was to be removed is gone
C25_GoesOn(m) ==
    LET old == mgr[m].states
        passed == Len(old) - Len(mgr'[m].states)
        staleThreshold == mgr[m].checkNow - StaleThresholdMs
    IN  /\ passed >= 1
        /\ localStorage'[old[1].key] = NoItem
        /\ \A i \in 1..passed :
               shouldRemoveItem(old[i].state, staleThreshold)
                   => localStorage'[old[i].key] = NoItem
        /\ \/ /\ mgr'[m].pc = "paused"
              /\ passed = mgr[m].left
           \/ /\ mgr'[m].pc = "cancel"
              /\ passed < mgr[m].left
              /\ shouldRemoveItem(old[passed + 1].state, staleThreshold)
              /\ HasUploadId(old[passed + 1].state)

\* C25: performCleanup calls abortMultipartUpload for a record with an
\* uploadId before it removes the record, and when the Storage.cancel of one
\* record rejects, that record is removed all the same and the cleanup goes
\* on with the remaining records of the batch.
C25_AbortThenRemove ==
    /\ []C25_AbortBeforeRemove
    /\ [][\A m \in Mgrs : C25_Settles(m) => C25_GoesOn(m)]_vars

\* the Storage.cancel for one record has rejected and the performCleanup has
\* gone on to abort and remove the record of another upload
C25_Witness ==
    \E m \in Mgrs :
        LET log == mgr[m].log IN
        \E i \in 1..Len(log), j \in 1..Len(log) :
            /\ i < j
            /\ log[i].op = "cancelRejected"
            /\ log[j].op = "remove"
            /\ log[j].key # log[i].key
            /\ localStorage[log[i].key] = NoItem
            /\ localStorage[log[j].key] = NoItem

\* the steps of checkAndCleanup and performCleanup
C24_CleanupStep == lastOp' \in {"checkAndCleanup", "performCleanup"}

\* the entry is a record of which one of the times it carries lies more than
\* the stale threshold before t
C24_Stale(item, t) ==
    /\ Parsable(item)
    /\ LET r == JSONparse(item) IN
       \E f \in {"timestamp", "lastUpdated", "startTime"} :
           FieldLess(r, f, t - StaleThresholdMs)

\* C24: a step of a cleanup changes an entry of localStorage only by removing
\* one whose key starts with 'upload-' and whose value was unparsable or
\* older than 24 h; the one other change is checkAndCleanup's own write of
\* lastCleanupTime once performCleanup has returned.
C24_RemovesOnlyStale ==
    [][ C24_CleanupStep =>
          \A k \in LSKeys :
              localStorage'[k] # localStorage[k] =>
                  IF k = "lastCleanupTime"
                  THEN \E m \in Mgrs :
                          /\ mgr'[m].pc = "idle"
                          /\ localStorage'[k] \in {NumToString(now),
                                                   NumToString(mgr[m].checkNow)}
                  ELSE /\ StartsWithPrefix(k)
                       /\ localStorage'[k] = NoItem
                       /\ \/ ~Parsable(localStorage[k])
                          \/ C24_Stale(localStorage[k], now)
      ]_vars

====
